---------------------------- MODULE Spec2Model ----------------------------
(***************************************************************************)
(* A model of the tarzan dataset packaging library: the tar packing and    *)
(* unpacking protocol, the TarWriter, the ShardWriter with its manifest,   *)
(* the reference-counted StreamWrapper and the TarReader iteration.        *)
(*                                                                         *)
(* Python strings are modelled as sequences of one-character strings, so   *)
(* that str.isdigit, int(), str(), "%05d" % n, f"{prefix}/{key}",          *)
(* name.split("/") and os.path.basename are computed and not assumed.      *)
(* Python's None and every other dynamically typed value is a record with  *)
(* a kind field.                                                           *)
(***************************************************************************)
EXTENDS Integers, Sequences, FiniteSets, TLC

(***************************************************************************)
(* Bounds of the model                                                     *)
(***************************************************************************)
MaxListLen == 2

MaxTarMembers == 4

MaxRecords == 3

MaxShards == 4

MaxMaxCount == 2

MaxStreams == 4

MaxTarFiles == 2

MaxArchiveRecords == 2

MaxRank == 2

MaxDim == 2

VARIABLES
    hash_seed,      \* iteration order of Python sets of str in this process
    tw,             \* a TarWriter: features, written_idx, tar_stream
    tw_last,        \* the last call on tw and how it ended
    tw_log,         \* the (idx, objects) of the writes that returned
    sw,             \* a ShardWriter and the DatasetInfo it holds
    sw_pc,          \* the statement the ShardWriter is at
    sw_arg,         \* the obj of the write call in progress
    sw_hist,        \* what happened so far: size rolls, raised writes, reopening
    sw_list0,       \* info.file_list when the ShardWriter was constructed
    files,          \* the tar files created, in creation order
    manifest,       \* the content of dataset_info.json
    streams,        \* the StreamWrappers constructed, in construction order
    st_last,        \* the last call on a StreamWrapper
    rd,             \* a TarReader: tar_files, features
    rd_pc,          \* the statement the generator TarReader.__iter__ is at
    rd_shard,       \* the place in tar_files of the shard being read
    rd_pos,         \* the next member the tar stream of this shard yields
    rd_tar_stream,  \* the StreamWrapper of the shard being read
    rd_out,         \* the (tar_file, index, decoded_example) yielded so far
    pk,             \* a tree packed on its own: tree, idx
    pk_pc,          \* how far the tree is through packing and unpacking
    pk_tar,         \* the members of the archive the tree was packed into
    pk_group,       \* the feature group scanned from the archive
    pk_out,         \* the feature composed from the group
    fn_args,        \* the arguments of a function called on its own
    fn_pc,          \* how far the call and the inverse call have got
    fn_mid,         \* what the first call returned
    fn_out          \* what the inverse call returned

tarVars == <<tw, tw_last, tw_log>>

shardVars == <<sw, sw_pc, sw_arg, sw_hist, sw_list0, files, manifest>>

streamVars == <<streams, st_last>>

readerVars == <<rd, rd_pc, rd_shard, rd_pos, rd_tar_stream, rd_out>>

packVars == <<pk, pk_pc, pk_tar, pk_group, pk_out>>

fnVars == <<fn_args, fn_pc, fn_mid, fn_out>>

vars == <<hash_seed, tarVars, shardVars, streamVars, readerVars, packVars, fnVars>>

(***************************************************************************)
(* Python values                                                           *)
(***************************************************************************)
None == [kind |-> "None"]

Bytes(b) == [kind |-> "bytes", data |-> b]

Str(s) == [kind |-> "str", chars |-> s]

Dict(items) == [kind |-> "dict", items |-> items]

List(elems) == [kind |-> "list", elems |-> elems]

Tuple(elems) == [kind |-> "tuple", elems |-> elems]

PyInt(n) == [kind |-> "int", n |-> n]

keys(d) == {d.items[i][1] : i \in 1..Len(d.items)}

getitem(d, k) == d.items[CHOOSE i \in 1..Len(d.items) : d.items[i][1] = k][2]

(* d[k] = v on an insertion-ordered dict: replace in place or append *)
setitem(d, k, v) ==
    IF k \in keys(d)
    THEN Dict([i \in 1..Len(d.items) |->
               IF d.items[i][1] = k THEN <<k, v>> ELSE d.items[i]])
    ELSE Dict(Append(d.items, <<k, v>>))

(***************************************************************************)
(* Python string operations                                                *)
(***************************************************************************)
DigitChars == <<"0", "1", "2", "3", "4", "5", "6", "7", "8", "9">>

isdigit(s) ==
    /\ Len(s) > 0
    /\ \A i \in 1..Len(s) : \E d \in 1..10 : DigitChars[d] = s[i]

DigitValue(c) == (CHOOSE d \in 1..10 : DigitChars[d] = c) - 1

RECURSIVE int(_)
int(s) ==
    IF Len(s) = 0 THEN 0
    ELSE 10 * int(SubSeq(s, 1, Len(s) - 1)) + DigitValue(s[Len(s)])

RECURSIVE str(_)
str(n) ==
    IF n < 10 THEN <<DigitChars[n + 1]>>
    ELSE str(n \div 10) \o <<DigitChars[(n % 10) + 1]>>

(* f"{prefix}{key}": the separator forgotten *)
JoinPath_no_separator(prefix, key) == prefix \o key

(* f"{prefix}/{key}" *)
JoinPath(prefix, key) == prefix \o <<"/">> \o key

(* name.split("/") *)
RECURSIVE split(_)
split(s) ==
    IF \A i \in 1..Len(s) : s[i] # "/" THEN <<s>>
    ELSE LET i == CHOOSE j \in 1..Len(s) :
                      s[j] = "/" /\ \A k \in 1..(j - 1) : s[k] # "/"
         IN  <<SubSeq(s, 1, i - 1)>> \o split(SubSeq(s, i + 1, Len(s)))

(***************************************************************************)
(* Tar members (tarfile.TarInfo plus the payload)                          *)
(***************************************************************************)
DirMember(name) == [name |-> name, type |-> "DIRTYPE", data |-> <<>>]

FileMember(name, data) == [name |-> name, type |-> "REGTYPE", data |-> data]

isfile(tarinfo) == tarinfo.type = "REGTYPE"

isdir(tarinfo) == tarinfo.type = "DIRTYPE"

_add_dir_to_tar(name) == <<DirMember(name)>>

(***************************************************************************)
(* Tar packing.  The result is the members added to the archive, the       *)
(* payload size returned, and whether ValueError was raised; members added *)
(* before the raise stay in the archive.                                   *)
(***************************************************************************)
PackResult(tar, size, raised) == [tar |-> tar, size |-> size, raised |-> raised]

RECURSIVE _write_to_tar(_, _)
RECURSIVE WriteDictItems(_, _, _)
RECURSIVE WriteListItems(_, _, _)

(* the loop over a dict without the test of key.isdigit() *)
RECURSIVE WriteDictItems_no_digit_check(_, _, _)
WriteDictItems_no_digit_check(prefix, items, i) ==
    IF i > Len(items) THEN PackResult(<<>>, 0, FALSE)
    ELSE LET r == _write_to_tar(JoinPath(prefix, items[i][1]), items[i][2])
         IN  IF r.raised THEN r
             ELSE LET rest == WriteDictItems_no_digit_check(prefix, items, i + 1)
                  IN  PackResult(r.tar \o rest.tar, r.size + rest.size, rest.raised)

WriteDictItems(prefix, items, i) ==
    IF i > Len(items) THEN PackResult(<<>>, 0, FALSE)
    ELSE IF isdigit(items[i][1]) THEN PackResult(<<>>, 0, TRUE)
    ELSE LET r == _write_to_tar(JoinPath(prefix, items[i][1]), items[i][2])
         IN  IF r.raised THEN r
             ELSE LET rest == WriteDictItems(prefix, items, i + 1)
                  IN  PackResult(r.tar \o rest.tar, r.size + rest.size, rest.raised)

WriteListItems(prefix, elems, i) ==
    IF i > Len(elems) THEN PackResult(<<>>, 0, FALSE)
    ELSE LET r == _write_to_tar(JoinPath(prefix, str(i - 1)), elems[i])
         IN  IF r.raised THEN r
             ELSE LET rest == WriteListItems(prefix, elems, i + 1)
                  IN  PackResult(r.tar \o rest.tar, r.size + rest.size, rest.raised)

_write_to_tar(prefix, data) ==
    IF data.kind = "dict"
    THEN LET r == WriteDictItems(prefix, data.items, 1)
         IN  PackResult(_add_dir_to_tar(prefix) \o r.tar, r.size, r.raised)
    ELSE IF data.kind = "list"
    THEN LET r == WriteListItems(prefix, data.elems, 1)
         IN  PackResult(_add_dir_to_tar(prefix) \o r.tar, r.size, r.raised)
    ELSE IF data.kind = "None"
    THEN PackResult(<<FileMember(prefix, <<>>)>>, 0, FALSE)
    ELSE PackResult(<<FileMember(prefix, data.data)>>, Len(data.data), FALSE)

(***************************************************************************)
(* Tar unpacking                                                           *)
(***************************************************************************)
_get_tar_index(tarinfo) == split(tarinfo.name)[1]

(* One turn of the generator _feature_stream from member position pos:    *)
(* the members up to the next yield.  done is TRUE when the stream ends    *)
(* without a yield.                                                        *)
RECURSIVE ScanGroup(_, _, _)
ScanGroup(members, pos, feature_group) ==
    IF pos > Len(members)
    THEN [done |-> TRUE, index |-> <<>>, group |-> feature_group, next |-> pos]
    ELSE LET tarinfo == members[pos]
             index == _get_tar_index(tarinfo)
             grp == Append(feature_group, tarinfo)
         IN  IF pos + 1 > Len(members)
             THEN [done |-> FALSE, index |-> index, group |-> grp, next |-> pos + 1]
             ELSE IF _get_tar_index(members[pos + 1]) # index
             THEN [done |-> FALSE, index |-> index, group |-> grp, next |-> pos + 1]
             ELSE ScanGroup(members, pos + 1, grp)

(* a generator that forgets the members it has consumed *)
_feature_stream_next_from_start(members, pos) == ScanGroup(members, 1, <<>>)

_feature_stream_next(members, pos) == ScanGroup(members, pos, <<>>)

(* The handle _get_inner_fobj returns for the n-th extracted member of a   *)
(* group; base + n is its place among the StreamWrappers created so far.   *)
Handle(id, data) == [kind |-> "StreamWrapper", id |-> id, data |-> data]

RECURSIVE SetPath(_, _, _)
SetPath(d, path, v) ==
    IF Len(path) = 1 THEN setitem(d, path[1], v)
    ELSE LET sub == IF path[1] \in keys(d) THEN getitem(d, path[1]) ELSE Dict(<<>>)
         IN  setitem(d, path[1], SetPath(sub, Tail(path), v))

(* sorted(items, key=lambda item: int(item[0])): a stable insertion sort *)
RECURSIVE InsertByInt(_, _)
InsertByInt(sorted, item) ==
    IF Len(sorted) = 0 THEN <<item>>
    ELSE IF int(sorted[Len(sorted)][1]) <= int(item[1]) THEN Append(sorted, item)
    ELSE Append(InsertByInt(SubSeq(sorted, 1, Len(sorted) - 1), item),
                sorted[Len(sorted)])

(* the items left in insertion order *)
SortByInt_insertion_order(items) == items

RECURSIVE SortByInt(_)
SortByInt(items) ==
    IF Len(items) = 0 THEN <<>>
    ELSE InsertByInt(SortByInt(SubSeq(items, 1, Len(items) - 1)), items[Len(items)])

RECURSIVE _transform_dict(_)
_transform_dict(input_dict) ==
    LET result_dict ==
            Dict([i \in 1..Len(input_dict.items) |->
                  LET key == input_dict.items[i][1]
                      value == input_dict.items[i][2]
                  IN  <<key, IF value.kind = "dict" THEN _transform_dict(value)
                             ELSE value>>])
    IN  IF \A key \in keys(result_dict) : isdigit(key)
        THEN LET srt == SortByInt(result_dict.items)
             IN  List([i \in 1..Len(srt) |-> srt[i][2]])
        ELSE result_dict

(* The number of StreamWrappers _compose_feature creates for a group *)
RECURSIVE CountFiles(_)
CountFiles(group) ==
    IF Len(group) = 0 THEN 0
    ELSE CountFiles(Tail(group)) + (IF isdir(group[1]) THEN 0 ELSE 1)

RECURSIVE BuildNested(_, _, _, _)
BuildNested(group, i, nested, base) ==
    IF i > Len(group) THEN nested
    ELSE LET tarinfo == group[i]
         IN  IF isdir(tarinfo) THEN BuildNested(group, i + 1, nested, base)
             ELSE LET parts == split(tarinfo.name)
                      n == CountFiles(SubSeq(group, 1, i))
                  IN  BuildNested(group, i + 1,
                                  SetPath(nested,
                                          SubSeq(parts, 2, Len(parts) - 1)
                                              \o <<parts[Len(parts)]>>,
                                          Handle(base + n, tarinfo.data)),
                                  base)

(* _compose_feature: raised is the AssertionError of the single member     *)
(* case.                                                                   *)
_compose_feature(group, base) ==
    IF Len(group) = 1
    THEN IF isfile(group[1])
         THEN [raised |-> FALSE, value |-> Handle(base + 1, group[1].data)]
         ELSE [raised |-> TRUE, value |-> None]
    ELSE [raised |-> FALSE,
          value |-> _transform_dict(BuildNested(group, 1, Dict(<<>>), base))]

(***************************************************************************)
(* UTF-8 over the characters the model uses; "e_acute" stands for the      *)
(* two-byte character U+00E9.                                              *)
(***************************************************************************)
CodeTable ==
    << <<"a", <<97>> >>, <<"b", <<98>> >>, <<"h", <<104>> >>,
       <<"0", <<48>> >>, <<"1", <<49>> >>, <<"e_acute", <<195, 169>> >>,
       <<"{", <<123>> >>, <<"}", <<125>> >>, <<"[", <<91>> >>, <<"]", <<93>> >>,
       <<"\"", <<34>> >>, <<":", <<58>> >>, <<",", <<44>> >>, <<" ", <<32>> >>,
       <<"n", <<110>> >>, <<"u", <<117>> >>, <<"l", <<108>> >>, <<"\\", <<92>> >>,
       <<"e", <<101>> >>, <<"9", <<57>> >> >>

CharBytes(c) == CodeTable[CHOOSE i \in 1..Len(CodeTable) : CodeTable[i][1] = c][2]

RECURSIVE utf8_encode(_)
utf8_encode(chars) ==
    IF Len(chars) = 0 THEN <<>>
    ELSE CharBytes(chars[1]) \o utf8_encode(Tail(chars))

(* bytes.decode("utf-8"): raised is UnicodeDecodeError *)
RECURSIVE utf8_decode(_)
utf8_decode(data) ==
    IF Len(data) = 0 THEN [raised |-> FALSE, chars |-> <<>>]
    ELSE LET hits == {i \in 1..Len(CodeTable) :
                          /\ Len(CodeTable[i][2]) <= Len(data)
                          /\ SubSeq(data, 1, Len(CodeTable[i][2])) = CodeTable[i][2]}
         IN  IF hits = {} THEN [raised |-> TRUE, chars |-> <<>>]
             ELSE LET i == CHOOSE j \in hits : TRUE
                      rest == utf8_decode(SubSeq(data, Len(CodeTable[i][2]) + 1,
                                                 Len(data)))
                  IN  [raised |-> rest.raised,
                       chars |-> <<CodeTable[i][1]>> \o rest.chars]

(***************************************************************************)
(* Feature schema: the leaves Text and Audio, mappings (Dict), one-element *)
(* list patterns (List) and Sequence.                                      *)
(***************************************************************************)
Text == [kind |-> "Text"]

Json == [kind |-> "Json"]

(* Tensor.__init__ and __post_init__: the shape is made a tuple, the dtype *)
(* must be a str                                                           *)
Tensor(shape, dtype) ==
    IF dtype.kind # "str" \/ shape.kind \notin {"list", "tuple"}
    THEN [kind |-> "TypeError"]
    ELSE [kind |-> "Tensor", shape |-> Tuple(shape.elems), dtype |-> dtype]

(* Scalar.__init__(dtype, **kwargs) *)
Scalar(dtype) ==
    IF Tensor(Tuple(<<>>), dtype).kind = "TypeError" THEN [kind |-> "TypeError"]
    ELSE [kind |-> "Scalar", shape |-> Tuple(<<>>), dtype |-> dtype]

(* Audio.__init__(shape, dtype, sample_rate) *)
Audio_init(shape, dtype, sample_rate) ==
    IF Tensor(shape, dtype).kind = "TypeError" THEN [kind |-> "TypeError"]
    ELSE [kind |-> "Audio", shape |-> Tuple(shape.elems), dtype |-> dtype,
          sample_rate |-> sample_rate]

(* Audio() *)
Audio == Audio_init(Tuple(<<None>>), Str(<<"f", "l", "o", "a", "t", "3", "2">>), None)

Sequence_init(feature, length) ==
    [kind |-> "Sequence", feature |-> feature, length |-> length]

(* Sequence(feature) *)
Sequence(feature) == Sequence_init(feature, PyInt(-1))

Result(value) == [raised |-> FALSE, value |-> value]

Raise == [raised |-> TRUE, value |-> None]

(* Text.encode_example: example.encode("utf-8"); a value without .encode   *)
(* raises AttributeError.                                                  *)
(***************************************************************************)
(* Dimension and TensorShape.  A Dimension holds None or an int; the dims  *)
(* of a TensorShape are None (unknown rank) or a list of Dimensions.       *)
(***************************************************************************)
Dimension(value) ==
    IF value.kind = "Dimension" THEN value
    ELSE IF value.kind = "int" /\ value.n < 0 THEN [kind |-> "ValueError"]
    ELSE IF value.kind \notin {"int", "None"} THEN [kind |-> "TypeError"]
    ELSE [kind |-> "Dimension", value |-> value]

as_dimension(value) == IF value.kind = "Dimension" THEN value ELSE Dimension(value)

(* a Dimension that an unknown other does not match *)
Dimension_is_compatible_with_known_only(self, other) ==
    self.value = None \/ self.value = as_dimension(other).value

Dimension_is_compatible_with(self, other) ==
    \/ self.value = None
    \/ as_dimension(other).value = None
    \/ self.value = as_dimension(other).value

TensorShape(dims) ==
    IF dims.kind \in {"tuple", "list"}
    THEN [kind |-> "TensorShape",
          dims |-> List([i \in 1..Len(dims.elems) |-> Dimension(dims.elems[i])])]
    ELSE IF dims.kind = "None" THEN [kind |-> "TensorShape", dims |-> None]
    ELSE IF dims.kind = "TensorShape" THEN [kind |-> "TensorShape", dims |-> dims.dims]
    ELSE [kind |-> "TensorShape", dims |-> List(<<as_dimension(dims)>>)]

as_shape(shape) == IF shape.kind = "TensorShape" THEN shape ELSE TensorShape(shape)

rank(self) == IF self.dims # None THEN PyInt(Len(self.dims.elems)) ELSE None

TensorShape_is_compatible_with(self, other) ==
    IF self.dims # None /\ as_shape(other).dims # None
    THEN /\ rank(self) = rank(as_shape(other))
         /\ \A i \in 1..Len(self.dims.elems) :
               Dimension_is_compatible_with(self.dims.elems[i],
                                            as_shape(other).dims.elems[i])
    ELSE TRUE

(* assert_shape_match(shape1, shape2): TRUE when ValueError is raised *)
assert_shape_match(shape1, shape2) ==
    \/ rank(TensorShape(shape1)) = None
    \/ rank(TensorShape(shape2)) = None
    \/ rank(TensorShape(shape1)) # rank(TensorShape(shape2))
    \/ ~TensorShape_is_compatible_with(TensorShape(shape1), TensorShape(shape2))

(***************************************************************************)
(* The array library, for two little-endian integer dtypes.  An ndarray is *)
(* its shape (a sequence of naturals), its dtype and its elements in       *)
(* row-major order.                                                        *)
(***************************************************************************)
uint8 == Str(<<"u", "i", "n", "t", "8">>)

int16 == Str(<<"i", "n", "t", "1", "6">>)

itemsize(dtype) == IF dtype = uint8 THEN 1 ELSE 2

InRange(n, dtype) == IF dtype = uint8 THEN n \in 0..255 ELSE n \in (-32768)..32767

ndarray(shape, dtype, data) ==
    [kind |-> "ndarray", shape |-> shape, dtype |-> dtype, data |-> data]

RECURSIVE Product(_)
Product(s) == IF Len(s) = 0 THEN 1 ELSE s[1] * Product(Tail(s))

RECURSIVE Concat(_)
Concat(ss) == IF Len(ss) = 0 THEN <<>> ELSE ss[1] \o Concat(Tail(ss))

IsIntList(obj) ==
    /\ obj.kind \in {"list", "tuple"}
    /\ \A i \in 1..Len(obj.elems) : obj.elems[i].kind = "int"

(* np.asarray(example, dtype) of an int, a list of ints or a rectangular   *)
(* list of lists of ints; raised is TypeError, ValueError or OverflowError *)
np_asarray(example, dtype) ==
    IF example.kind = "ndarray" THEN Result(example)
    ELSE IF example.kind = "int"
    THEN IF InRange(example.n, dtype) THEN Result(ndarray(<<>>, dtype, <<example.n>>))
         ELSE Raise
    ELSE IF IsIntList(example)
    THEN IF \A i \in 1..Len(example.elems) : InRange(example.elems[i].n, dtype)
         THEN Result(ndarray(<<Len(example.elems)>>, dtype,
                             [i \in 1..Len(example.elems) |-> example.elems[i].n]))
         ELSE Raise
    ELSE IF /\ example.kind \in {"list", "tuple"}
            /\ \A i \in 1..Len(example.elems) :
                  /\ IsIntList(example.elems[i])
                  /\ Len(example.elems[i].elems) = Len(example.elems[1].elems)
                  /\ \A j \in 1..Len(example.elems[i].elems) :
                        InRange(example.elems[i].elems[j].n, dtype)
    THEN Result(ndarray(<<Len(example.elems), Len(example.elems[1].elems)>>, dtype,
                        Concat([i \in 1..Len(example.elems) |->
                                   [j \in 1..Len(example.elems[i].elems) |->
                                       example.elems[i].elems[j].n]])))
    ELSE Raise

(* one element as little-endian two's-complement bytes, and back *)
item_tobytes(n, dtype) ==
    IF dtype = uint8 THEN <<n>>
    ELSE LET u == IF n < 0 THEN n + 65536 ELSE n
         IN  <<u % 256, u \div 256>>

item_frombytes(b, dtype) ==
    IF dtype = uint8 THEN b[1]
    ELSE LET u == b[1] + 256 * b[2]
         IN  IF u >= 32768 THEN u - 65536 ELSE u

tobytes(arr) == Concat([i \in 1..Len(arr.data) |-> item_tobytes(arr.data[i], arr.dtype)])

(* np.frombuffer(buffer, dtype): a one-dimensional array; raised is        *)
(* ValueError, the buffer size not being a multiple of the element size    *)
frombuffer(buffer, dtype) ==
    IF Len(buffer) % itemsize(dtype) # 0 THEN Raise
    ELSE Result(ndarray(<<Len(buffer) \div itemsize(dtype)>>, dtype,
                        [i \in 1..(Len(buffer) \div itemsize(dtype)) |->
                            item_frombytes(SubSeq(buffer, (i - 1) * itemsize(dtype) + 1,
                                                  i * itemsize(dtype)), dtype)]))

(* ndarray.reshape(shape): one -1 is inferred from the size; raised is     *)
(* ValueError                                                              *)
reshape(arr, shape) ==
    LET unknown == {i \in 1..Len(shape) : shape[i] = -1}
        known == Product([i \in 1..Len(shape) |-> IF shape[i] = -1 THEN 1 ELSE shape[i]])
        size == Len(arr.data)
    IN  IF Cardinality(unknown) > 1 THEN Raise
        ELSE IF unknown = {}
        THEN IF known = size THEN Result(ndarray(shape, arr.dtype, arr.data)) ELSE Raise
        ELSE IF known = 0 \/ size % known # 0 THEN Raise
        ELSE Result(ndarray([i \in 1..Len(shape) |->
                                IF shape[i] = -1 THEN size \div known ELSE shape[i]],
                            arr.dtype, arr.data))

(***************************************************************************)
(* JSON.  json_dumps and json_load convert between Python values and JSON  *)
(* values; JSONEncoder_encode and JSONDecoder_decode convert between JSON  *)
(* values and their text, over strings of ASCII letters and U+00E9.        *)
(***************************************************************************)
(* json.dumps: the JSON value written; lists and tuples are both arrays *)
RECURSIVE json_dumps(_)
json_dumps(obj) ==
    IF obj.kind = "dict"
    THEN [kind |-> "object",
          members |-> [i \in 1..Len(obj.items) |->
                          <<obj.items[i][1], json_dumps(obj.items[i][2])>>]]
    ELSE IF obj.kind \in {"list", "tuple"}
    THEN [kind |-> "array",
          elements |-> [i \in 1..Len(obj.elems) |-> json_dumps(obj.elems[i])]]
    ELSE IF obj.kind = "str" THEN [kind |-> "string", chars |-> obj.chars]
    ELSE IF obj.kind = "int" THEN [kind |-> "number", n |-> obj.n]
    ELSE IF obj.kind = "None" THEN [kind |-> "null"]
    ELSE [kind |-> "TypeError"]

(* json.load: objects become dicts, arrays lists *)
RECURSIVE json_load(_)
json_load(value) ==
    IF value.kind = "object"
    THEN Dict([i \in 1..Len(value.members) |->
                  <<value.members[i][1], json_load(value.members[i][2])>>])
    ELSE IF value.kind = "array"
    THEN List([i \in 1..Len(value.elements) |-> json_load(value.elements[i])])
    ELSE IF value.kind = "string" THEN Str(value.chars)
    ELSE IF value.kind = "number" THEN PyInt(value.n)
    ELSE None

RECURSIVE json_serializable(_)
json_serializable(obj) ==
    IF obj.kind = "dict"
    THEN \A i \in 1..Len(obj.items) : json_serializable(obj.items[i][2])
    ELSE IF obj.kind \in {"list", "tuple"}
    THEN \A i \in 1..Len(obj.elems) : json_serializable(obj.elems[i])
    ELSE obj.kind \in {"str", "int", "None"}

(* a string literal: ensure_ascii writes U+00E9 as an escape *)
RECURSIVE encode_basestring_ascii(_)
encode_basestring_ascii(chars) ==
    IF Len(chars) = 0 THEN <<>>
    ELSE (IF chars[1] = "e_acute" THEN <<"\\", "u", "0", "0", "e", "9">>
          ELSE <<chars[1]>>) \o encode_basestring_ascii(Tail(chars))

RECURSIVE JoinComma(_)
JoinComma(parts) ==
    IF Len(parts) = 0 THEN <<>>
    ELSE IF Len(parts) = 1 THEN parts[1]
    ELSE parts[1] \o <<",", " ">> \o JoinComma(Tail(parts))

(* JSONEncoder.encode with the default separators ", " and ": " *)
RECURSIVE JSONEncoder_encode(_)
JSONEncoder_encode(value) ==
    IF value.kind = "object"
    THEN <<"{">> \o JoinComma([i \in 1..Len(value.members) |->
                    <<"\"">> \o encode_basestring_ascii(value.members[i][1]) \o <<"\"">>
                        \o <<":", " ">> \o JSONEncoder_encode(value.members[i][2])])
             \o <<"}">>
    ELSE IF value.kind = "array"
    THEN <<"[">> \o JoinComma([i \in 1..Len(value.elements) |->
                                  JSONEncoder_encode(value.elements[i])]) \o <<"]">>
    ELSE IF value.kind = "string"
    THEN <<"\"">> \o encode_basestring_ascii(value.chars) \o <<"\"">>
    ELSE IF value.kind = "number" THEN str(value.n)
    ELSE <<"n", "u", "l", "l">>

(* the character at pos, "" past the end *)
At(s, pos) == IF pos \in 1..Len(s) THEN s[pos] ELSE ""

RECURSIVE skip_whitespace(_, _)
skip_whitespace(s, pos) == IF At(s, pos) = " " THEN skip_whitespace(s, pos + 1) ELSE pos

Scanned(value, pos) == [ok |-> TRUE, value |-> value, pos |-> pos]

ScanError == [ok |-> FALSE, value |-> [kind |-> "null"], pos |-> 0]

(* the characters of a string literal from pos, and the position after     *)
(* its closing quote                                                       *)
RECURSIVE scanstring(_, _, _)
scanstring(s, pos, acc) ==
    IF At(s, pos) = "" THEN ScanError
    ELSE IF At(s, pos) = "\"" THEN Scanned(acc, pos + 1)
    ELSE IF At(s, pos) = "\\"
    THEN IF pos + 5 <= Len(s) /\ SubSeq(s, pos, pos + 5) = <<"\\", "u", "0", "0", "e", "9">>
         THEN scanstring(s, pos + 6, acc \o <<"e_acute">>)
         ELSE ScanError
    ELSE scanstring(s, pos + 1, acc \o <<s[pos]>>)

RECURSIVE EndOfDigits(_, _)
EndOfDigits(s, pos) ==
    IF isdigit(<<At(s, pos)>>) THEN EndOfDigits(s, pos + 1) ELSE pos

RECURSIVE scan_once(_, _)
RECURSIVE scan_array(_, _, _)
RECURSIVE scan_object(_, _, _)
scan_once(s, pos0) ==
    LET pos == skip_whitespace(s, pos0)
    IN  IF At(s, pos) = "\""
        THEN LET r == scanstring(s, pos + 1, <<>>)
             IN  IF r.ok THEN Scanned([kind |-> "string", chars |-> r.value], r.pos)
                 ELSE ScanError
        ELSE IF isdigit(<<At(s, pos)>>)
        THEN Scanned([kind |-> "number", n |-> int(SubSeq(s, pos, EndOfDigits(s, pos) - 1))],
                     EndOfDigits(s, pos))
        ELSE IF pos + 3 <= Len(s) /\ SubSeq(s, pos, pos + 3) = <<"n", "u", "l", "l">>
        THEN Scanned([kind |-> "null"], pos + 4)
        ELSE IF At(s, pos) = "["
        THEN IF At(s, skip_whitespace(s, pos + 1)) = "]"
             THEN Scanned([kind |-> "array", elements |-> <<>>],
                          skip_whitespace(s, pos + 1) + 1)
             ELSE scan_array(s, pos + 1, <<>>)
        ELSE IF At(s, pos) = "{"
        THEN IF At(s, skip_whitespace(s, pos + 1)) = "}"
             THEN Scanned([kind |-> "object", members |-> <<>>],
                          skip_whitespace(s, pos + 1) + 1)
             ELSE scan_object(s, pos + 1, <<>>)
        ELSE ScanError

scan_array(s, pos, acc) ==
    LET v == scan_once(s, pos)
        next == skip_whitespace(s, v.pos)
    IN  IF ~v.ok THEN ScanError
        ELSE IF At(s, next) = "," THEN scan_array(s, next + 1, Append(acc, v.value))
        ELSE IF At(s, next) = "]"
        THEN Scanned([kind |-> "array", elements |-> Append(acc, v.value)], next + 1)
        ELSE ScanError

scan_object(s, pos, acc) ==
    LET start == skip_whitespace(s, pos)
        key == scanstring(s, start + 1, <<>>)
        colon == skip_whitespace(s, key.pos)
        v == scan_once(s, colon + 1)
        next == skip_whitespace(s, v.pos)
    IN  IF At(s, start) # "\"" THEN ScanError
        ELSE IF ~key.ok THEN ScanError
        ELSE IF At(s, colon) # ":" THEN ScanError
        ELSE IF ~v.ok THEN ScanError
        ELSE IF At(s, next) = ","
        THEN scan_object(s, next + 1, Append(acc, <<key.value, v.value>>))
        ELSE IF At(s, next) = "}"
        THEN Scanned([kind |-> "object", members |-> Append(acc, <<key.value, v.value>>)],
                     next + 1)
        ELSE ScanError

(* JSONDecoder.decode: one value and nothing after it; raised is           *)
(* JSONDecodeError                                                         *)
JSONDecoder_decode(s) ==
    LET v == scan_once(s, 1)
    IN  IF v.ok /\ skip_whitespace(s, v.pos) = Len(s) + 1 THEN Result(v.value)
        ELSE Raise

Text_encode_example(example) ==
    IF example.kind = "str" THEN Result(Bytes(utf8_encode(example.chars)))
    ELSE Raise

(* Audio.encode_example on a readable file object returns its bytes; an    *)
(* ndarray raises ValueError, a value without .read raises AttributeError. *)
Audio_encode_example(audio_or_path_or_fobj) ==
    IF audio_or_path_or_fobj.kind = "fobj"
    THEN Result(Bytes(audio_or_path_or_fobj.data))
    ELSE Raise

(* Json.encode_example: the UTF-8 bytes of json.dumps(example); raised is  *)
(* TypeError                                                               *)
Json_encode_example(example) ==
    IF json_serializable(example)
    THEN Text_encode_example(Str(JSONEncoder_encode(json_dumps(example))))
    ELSE Raise

(* Tensor.encode_example; raised is ValueError (or what np.asarray raises) *)
Tensor_encode_example(self, example) ==
    LET arr == np_asarray(example, self.dtype)
    IN  IF arr.raised THEN Raise
        ELSE IF arr.value.dtype # self.dtype THEN Raise
        ELSE IF assert_shape_match(
                    Tuple([i \in 1..Len(arr.value.shape) |-> PyInt(arr.value.shape[i])]),
                    self.shape)
        THEN Raise
        ELSE Result(Bytes(tobytes(arr.value)))

encode_example(schema, obj) ==
    IF schema.kind = "Text" THEN Text_encode_example(obj)
    ELSE IF schema.kind = "Json" THEN Json_encode_example(obj)
    ELSE IF schema.kind \in {"Tensor", "Scalar"} THEN Tensor_encode_example(schema, obj)
    ELSE Audio_encode_example(obj)

(* A decode result also names the StreamWrappers the decoder closed. *)
Decoded(value, closed) == [raised |-> FALSE, value |-> value, closed |-> closed]

DecodeRaise(closed) == [raised |-> TRUE, value |-> None, closed |-> closed]

Text_decode_example(example) ==
    IF example.kind = "StreamWrapper"
    THEN IF Len(example.data) = 0 THEN Decoded(None, {example.id})
         ELSE LET r == utf8_decode(example.data)
              IN  IF r.raised THEN DecodeRaise({example.id})
                  ELSE Decoded(Str(r.chars), {example.id})
    ELSE IF example.kind = "bytes"
    THEN LET r == utf8_decode(example.data)
         IN  IF r.raised THEN DecodeRaise({}) ELSE Decoded(Str(r.chars), {})
    ELSE DecodeRaise({})

Tensor_decode_example(self, example) ==
    LET closed == IF example.kind = "StreamWrapper" THEN {example.id} ELSE {}
        shape == [i \in 1..Len(self.shape.elems) |->
                     IF self.shape.elems[i] = None THEN -1 ELSE self.shape.elems[i].n]
    IN  IF example.kind = "StreamWrapper" /\ Len(example.data) = 0
        THEN Decoded(None, closed)
        ELSE IF example.kind \notin {"StreamWrapper", "bytes"} THEN DecodeRaise(closed)
        ELSE LET arr == frombuffer(example.data, self.dtype)
             IN  IF arr.raised THEN DecodeRaise(closed)
                 ELSE LET out == reshape(arr.value, shape)
                      IN  IF out.raised THEN DecodeRaise(closed)
                          ELSE Decoded(out.value, closed)

(* Json.decode_example: json.loads of the decoded text *)
Json_decode_example(example) ==
    LET text == Text_decode_example(example)
    IN  IF text.raised \/ text.value.kind # "str" THEN DecodeRaise(text.closed)
        ELSE LET value == JSONDecoder_decode(text.value.chars)
             IN  IF value.raised THEN DecodeRaise(text.closed)
                 ELSE Decoded(json_load(value.value), text.closed)

(* Audio.decode_example wraps its input in an AudioDecoder and reads and   *)
(* closes nothing.                                                         *)
Audio_decode_example(audio_data) ==
    Decoded([kind |-> "AudioDecoder", fobj |-> audio_data], {})

decode_example(schema, obj) ==
    IF schema.kind = "Text" THEN Text_decode_example(obj)
    ELSE IF schema.kind = "Json" THEN Json_decode_example(obj)
    ELSE IF schema.kind \in {"Tensor", "Scalar"} THEN Tensor_decode_example(schema, obj)
    ELSE Audio_decode_example(obj)

(***************************************************************************)
(* zip_dict iterates the set of all keys of its dicts; the order of a set   *)
(* of str is fixed by the process's hash seed.  KeyError is raised lazily,  *)
(* at the first key one of the dicts lacks.                                *)
(***************************************************************************)
RECURSIVE SetOrder(_, _)
SetOrder(S, order) ==
    IF Len(order) = 0 THEN <<>>
    ELSE (IF order[1] \in S THEN <<order[1]>> ELSE <<>>) \o SetOrder(S, Tail(order))

(* zip_dict over the keys every dict has *)
zip_dict_common_keys(keysets) ==
    SetOrder({k \in UNION keysets : \A ks \in keysets : k \in ks}, hash_seed)

zip_dict(keysets) == SetOrder(UNION keysets, hash_seed)

(* iter(obj) for the builtin containers: a list's elements, a str's        *)
(* characters, a dict's keys, a bytes' integers; raised is TypeError.      *)
Iterate(obj) ==
    IF obj.kind = "list" THEN Result(obj.elems)
    ELSE IF obj.kind = "str"
    THEN Result([i \in 1..Len(obj.chars) |-> Str(<<obj.chars[i]>>)])
    ELSE IF obj.kind = "dict"
    THEN Result([i \in 1..Len(obj.items) |-> Str(obj.items[i][1])])
    ELSE IF obj.kind = "bytes"
    THEN Result([i \in 1..Len(obj.data) |-> PyInt(obj.data[i])])
    ELSE Raise

RECURSIVE encode_nested_example(_, _, _)
RECURSIVE EncodeItems(_, _, _, _, _)
RECURSIVE EncodeElems(_, _, _, _)
RECURSIVE EncodeStructs(_, _, _, _, _)
RECURSIVE EncodeColumn(_, _, _, _, _)

(* {k: encode(sub_schema, sub_obj) for k, (..) in zip_dict(schema, obj)} *)
EncodeItems(schema, obj, ks, i, level) ==
    IF i > Len(ks) THEN Result(Dict(<<>>))
    ELSE IF ks[i] \notin keys(schema) \/ ks[i] \notin keys(obj) THEN Raise
    ELSE LET r == encode_nested_example(getitem(schema, ks[i]),
                                        getitem(obj, ks[i]), level + 1)
             rest == EncodeItems(schema, obj, ks, i + 1, level)
         IN  IF r.raised \/ rest.raised THEN Raise
             ELSE Result(Dict(<< <<ks[i], r.value>> >> \o rest.value.items))

(* [encode(sub_schema, o) for o in obj] *)
EncodeElems(sub_schema, elems, i, level) ==
    IF i > Len(elems) THEN Result(List(<<>>))
    ELSE LET r == encode_nested_example(sub_schema, elems[i], level + 1)
             rest == EncodeElems(sub_schema, elems, i + 1, level)
         IN  IF r.raised \/ rest.raised THEN Raise
             ELSE Result(List(<<r.value>> \o rest.value.elems))

(* Sequence of struct, obj a list of dicts: zip_dict over the feature and every struct *)
EncodeStructs(feature, structs, ks, i, level) ==
    IF i > Len(ks) THEN Result(Dict(<<>>))
    ELSE IF \/ ks[i] \notin keys(feature)
            \/ \E n \in 1..Len(structs) : ks[i] \notin keys(structs[n])
    THEN Raise
    ELSE LET r == EncodeElems(getitem(feature, ks[i]),
                              [n \in 1..Len(structs) |-> getitem(structs[n], ks[i])],
                              1, level)
             rest == EncodeStructs(feature, structs, ks, i + 1, level)
         IN  IF r.raised \/ rest.raised THEN Raise
             ELSE Result(Dict(<< <<ks[i], r.value>> >> \o rest.value.items))

(* Sequence of struct, obj a single dict of lists: zip_dict(feature, obj) *)
EncodeColumn(feature, obj, ks, i, level) ==
    IF i > Len(ks) THEN Result(Dict(<<>>))
    ELSE IF ks[i] \notin keys(feature) \/ ks[i] \notin keys(obj) THEN Raise
    ELSE LET sub_objs == Iterate(getitem(obj, ks[i]))
         IN  IF sub_objs.raised THEN Raise
             ELSE LET r == EncodeElems(getitem(feature, ks[i]), sub_objs.value,
                                       1, level)
                      rest == EncodeColumn(feature, obj, ks, i + 1, level)
                  IN  IF r.raised \/ rest.raised THEN Raise
                      ELSE Result(Dict(<< <<ks[i], r.value>> >>
                                       \o rest.value.items))

encode_nested_example(schema, obj, level) ==
    IF schema.kind = "dict"
    THEN IF obj.kind = "None" THEN (IF level = 0 THEN Raise ELSE Result(None))
         ELSE IF obj.kind # "dict" THEN Raise
         ELSE EncodeItems(schema, obj, zip_dict({keys(schema), keys(obj)}), 1, level)
    ELSE IF schema.kind = "list"
    THEN IF obj.kind = "None" THEN Result(None)
         ELSE LET it == Iterate(obj)
              IN  IF it.raised THEN Raise
                  ELSE EncodeElems(schema.elems[1], it.value, 1, level)
    ELSE IF schema.kind = "Sequence"
    THEN IF obj.kind = "None" THEN Result(None)
         ELSE IF schema.feature.kind = "dict"
         THEN IF obj.kind = "list"
              THEN IF \E n \in 1..Len(obj.elems) : obj.elems[n].kind # "dict"
                   THEN Raise
                   ELSE EncodeStructs(
                            schema.feature, obj.elems,
                            zip_dict({keys(schema.feature)}
                                     \cup {keys(obj.elems[n]) : n \in 1..Len(obj.elems)}),
                            1, level)
              ELSE IF obj.kind # "dict" THEN Raise
              ELSE EncodeColumn(schema.feature, obj,
                                zip_dict({keys(schema.feature), keys(obj)}), 1, level)
         ELSE IF obj.kind = "str" THEN Raise
         ELSE LET it == Iterate(obj)
              IN  IF it.raised THEN Raise
                  ELSE EncodeElems(schema.feature, it.value, 1, level)
    ELSE IF obj.kind = "None" THEN Result(None)
    ELSE encode_example(schema, obj)

Features_encode_example(features, example) ==
    encode_nested_example(features, example, 0)

RECURSIVE decode_nested_example(_, _)
RECURSIVE DecodeItems(_, _, _, _)
RECURSIVE DecodeElems(_, _, _)
RECURSIVE DecodeFields(_, _, _)

(* {k: decode(sub_schema, sub_obj) for k, (..) in zip_dict(schema, obj)};  *)
(* the handles closed before a raise stay closed.                          *)
DecodeItems(schema, obj, ks, i) ==
    IF i > Len(ks) THEN Decoded(Dict(<<>>), {})
    ELSE IF ks[i] \notin keys(schema) \/ ks[i] \notin keys(obj) THEN DecodeRaise({})
    ELSE LET r == decode_nested_example(getitem(schema, ks[i]), getitem(obj, ks[i]))
         IN  IF r.raised THEN DecodeRaise(r.closed)
             ELSE LET rest == DecodeItems(schema, obj, ks, i + 1)
                  IN  IF rest.raised THEN DecodeRaise(r.closed \cup rest.closed)
                      ELSE Decoded(Dict(<< <<ks[i], r.value>> >> \o rest.value.items),
                                   r.closed \cup rest.closed)

(* [decode(sub_schema, o) for o in obj] *)
DecodeElems(sub_schema, elems, i) ==
    IF i > Len(elems) THEN Decoded(List(<<>>), {})
    ELSE LET r == decode_nested_example(sub_schema, elems[i])
         IN  IF r.raised THEN DecodeRaise(r.closed)
             ELSE LET rest == DecodeElems(sub_schema, elems, i + 1)
                  IN  IF rest.raised THEN DecodeRaise(r.closed \cup rest.closed)
                      ELSE Decoded(List(<<r.value>> \o rest.value.elems),
                                   r.closed \cup rest.closed)

(* {k: decode([schema.feature[k]], obj[k]) for k in schema.feature} *)
DecodeFields(feature, obj, i) ==
    IF i > Len(feature.items) THEN Decoded(Dict(<<>>), {})
    ELSE LET k == feature.items[i][1]
         IN  IF obj.kind # "dict" \/ k \notin keys(obj) THEN DecodeRaise({})
             ELSE LET r == decode_nested_example(List(<<feature.items[i][2]>>),
                                                 getitem(obj, k))
                  IN  IF r.raised THEN DecodeRaise(r.closed)
                      ELSE LET rest == DecodeFields(feature, obj, i + 1)
                           IN  IF rest.raised
                               THEN DecodeRaise(r.closed \cup rest.closed)
                               ELSE Decoded(Dict(<< <<k, r.value>> >>
                                                 \o rest.value.items),
                                            r.closed \cup rest.closed)

(* Whether iterating obj yields nothing: an empty list, or a stream with   *)
(* no line to read.                                                        *)
YieldsNothing(obj) ==
    \/ obj.kind = "list" /\ Len(obj.elems) = 0
    \/ obj.kind = "StreamWrapper" /\ Len(obj.data) = 0

decode_nested_example(schema, obj) ==
    IF schema.kind = "dict"
    THEN IF obj.kind = "None" THEN Decoded(None, {})
         ELSE IF obj.kind = "dict"
         THEN DecodeItems(schema, obj, zip_dict({keys(schema), keys(obj)}), 1)
         ELSE IF keys(schema) = {} /\ YieldsNothing(obj) THEN Decoded(Dict(<<>>), {})
         ELSE DecodeRaise({})
    ELSE IF schema.kind = "list"
    THEN IF obj.kind = "None" THEN Decoded(None, {})
         ELSE LET it == Iterate(obj)
              IN  IF it.raised THEN DecodeRaise({})
                  ELSE DecodeElems(schema.elems[1], it.value, 1)
    ELSE IF schema.kind = "Sequence"
    THEN IF schema.feature.kind = "dict"
         THEN DecodeFields(schema.feature, obj, 1)
         ELSE decode_nested_example(List(<<schema.feature>>), obj)
    ELSE IF obj.kind = "None" THEN Decoded(None, {})
    ELSE decode_example(schema, obj)

(* Features.decode_example.  The columns are filtered by "key in example"; *)
(* on a list that compares the key with the elements, on a StreamWrapper   *)
(* it iterates the stream's lines, which leaves the stream at its end.     *)
Features_decode_example(features, example) ==
    IF example.kind = "dict"
    THEN LET filtered == Dict(SelectSeq(features.items,
                                        LAMBDA item : item[1] \in keys(example)))
         IN  DecodeItems(filtered, example,
                         zip_dict({keys(filtered), keys(example)}), 1)
    ELSE IF example.kind = "list"
    THEN IF Len(example.elems) = 0 THEN Decoded(Dict(<<>>), {}) ELSE DecodeRaise({})
    ELSE IF example.kind = "StreamWrapper"
    THEN IF keys(features) # {} \/ Len(example.data) = 0
         THEN Decoded(Dict(<<>>), {})
         ELSE DecodeRaise({})
    ELSE DecodeRaise({})

(* Features.decode_column *)
Features_decode_column(features, column, column_name) ==
    [i \in 1..Len(column) |->
        IF column[i].kind = "None" THEN Decoded(None, {})
        ELSE decode_nested_example(getitem(features, column_name), column[i])]

(***************************************************************************)
(* TarWriter                                                               *)
(***************************************************************************)
TarWriter(features) ==
    [features |-> features, written_idx |-> {},
     tar_stream |-> [members |-> <<>>, closed |-> FALSE]]

WriteOutcome(w, exc, site, size) ==
    [w |-> w, exc |-> exc, site |-> site, size |-> size]

(* TarWriter.write without the check of written_idx *)
TarWriter_write_no_written_idx_check(w, idx, objects) ==
    IF objects.kind # "dict" \/ keys(objects) # keys(w.features)
    THEN WriteOutcome(w, "ValueError", "keys", 0)
    ELSE LET written_obj == Features_encode_example(w.features, objects)
         IN  IF written_obj.raised
             THEN WriteOutcome(w, "Exception", "encode_example", 0)
             ELSE IF w.tar_stream.closed
             THEN WriteOutcome(w, "OSError", "_write_to_tar", 0)
             ELSE LET r == _write_to_tar(idx, written_obj.value)
                      added == [w EXCEPT !.tar_stream.members = @ \o r.tar]
                  IN  IF r.raised
                      THEN WriteOutcome(added, "ValueError", "_write_to_tar", 0)
                      ELSE WriteOutcome(
                               [added EXCEPT !.written_idx = @ \cup {idx}],
                               "", "", r.size)

(* TarWriter.write without the comparison of the column sets *)
TarWriter_write_no_keys_check(w, idx, objects) ==
    IF idx \in w.written_idx
    THEN WriteOutcome(w, "ValueError", "written_idx", 0)
    ELSE LET written_obj == Features_encode_example(w.features, objects)
         IN  IF written_obj.raised
             THEN WriteOutcome(w, "Exception", "encode_example", 0)
             ELSE IF w.tar_stream.closed
             THEN WriteOutcome(w, "OSError", "_write_to_tar", 0)
             ELSE LET r == _write_to_tar(idx, written_obj.value)
                      added == [w EXCEPT !.tar_stream.members = @ \o r.tar]
                  IN  IF r.raised
                      THEN WriteOutcome(added, "ValueError", "_write_to_tar", 0)
                      ELSE WriteOutcome(
                               [added EXCEPT !.written_idx = @ \cup {idx}],
                               "", "", r.size)

(* TarWriter.write.  exc is "" when the call returns; site names the       *)
(* statement that raised.  tarfile raises OSError on a closed archive      *)
(* before it adds the member.                                              *)
TarWriter_write(w, idx, objects) ==
    IF objects.kind # "dict" \/ keys(objects) # keys(w.features)
    THEN WriteOutcome(w, "ValueError", "keys", 0)
    ELSE IF idx \in w.written_idx
    THEN WriteOutcome(w, "ValueError", "written_idx", 0)
    ELSE LET written_obj == Features_encode_example(w.features, objects)
         IN  IF written_obj.raised
             THEN WriteOutcome(w, "Exception", "encode_example", 0)
             ELSE IF w.tar_stream.closed
             THEN WriteOutcome(w, "OSError", "_write_to_tar", 0)
             ELSE LET r == _write_to_tar(idx, written_obj.value)
                      added == [w EXCEPT !.tar_stream.members = @ \o r.tar]
                  IN  IF r.raised
                      THEN WriteOutcome(added, "ValueError", "_write_to_tar", 0)
                      ELSE WriteOutcome(
                               [added EXCEPT !.written_idx = @ \cup {idx}],
                               "", "", r.size)

TarWriter_close(w) == [w EXCEPT !.tar_stream.closed = TRUE]

(***************************************************************************)
(* Inputs of the TarWriter specification                                   *)
(***************************************************************************)
ka == <<"a">>

kb == <<"b">>

k0 == <<"0">>

AllKeys == <<ka, kb, k0>>

RECURSIVE Reverse(_)
Reverse(seq) == IF Len(seq) = 0 THEN <<>> ELSE Append(Reverse(Tail(seq)), seq[1])

HashSeeds == {AllKeys, Reverse(AllKeys)}

KeyLists == {<<>>, <<ka>>, <<ka, kb>>, <<ka, k0>>}

DictsOver(values) ==
    UNION {{Dict([i \in 1..Len(ks) |-> <<ks[i], f[i]>>]) :
                f \in [1..Len(ks) -> values]} : ks \in KeyLists}

TarSchemas ==
    {Dict(<< <<ka, Text>> >>), Dict(<< <<ka, Text>>, <<kb, Text>> >>),
     Dict(<< <<ka, Text>>, <<k0, Text>> >>),
     Dict(<< <<ka, Audio>> >>), Dict(<< <<ka, List(<<Text>>)>> >>)}

FileObj(data) == [kind |-> "fobj", data |-> data]

TarValues == {Str(<<"h", "e_acute">>), None, FileObj(<<104>>)}

TarRecords == DictsOver(TarValues)

TarIdx == {<<"1">>, <<"1", "0">>}

(***************************************************************************)
(* The TarWriter specification: one writer, any sequence of write and      *)
(* close calls.                                                            *)
(***************************************************************************)
NoShardWriter ==
    /\ sw = None
    /\ sw_pc = "none"
    /\ sw_arg = None
    /\ sw_hist = {}
    /\ sw_list0 = <<>>
    /\ files = <<>>
    /\ manifest = None

NoStreams == streams = <<>> /\ st_last = None

NoFn ==
    /\ fn_args = None
    /\ fn_pc = "none"
    /\ fn_mid = None
    /\ fn_out = None

NoPack ==
    /\ pk = None
    /\ pk_pc = "none"
    /\ pk_tar = <<>>
    /\ pk_group = <<>>
    /\ pk_out = None

NoReader ==
    /\ rd = None
    /\ rd_pc = "none"
    /\ rd_shard = 0
    /\ rd_pos = 0
    /\ rd_tar_stream = 0
    /\ rd_out = <<>>

TarInit ==
    /\ hash_seed \in HashSeeds
    /\ \E features \in TarSchemas : tw = TarWriter(features)
    /\ tw_last = [op |-> "__init__"]
    /\ tw_log = <<>>
    /\ NoShardWriter
    /\ NoStreams
    /\ NoReader
    /\ NoPack
    /\ NoFn

TarWrite(idx, objects) ==
    /\ Len(tw.tar_stream.members) < MaxTarMembers
    /\ LET out == TarWriter_write(tw, idx, objects)
       IN  /\ tw' = out.w
           /\ tw_last' = [op |-> "write", idx |-> idx, objects |-> objects,
                          exc |-> out.exc, site |-> out.site, size |-> out.size]
           /\ tw_log' = IF out.exc = ""
                        THEN Append(tw_log, [idx |-> idx, objects |-> objects])
                        ELSE tw_log
    /\ UNCHANGED <<hash_seed, shardVars, streamVars, readerVars, packVars, fnVars>>

TarClose ==
    /\ tw' = TarWriter_close(tw)
    /\ tw_last' = [op |-> "close"]
    /\ UNCHANGED <<hash_seed, tw_log, shardVars, streamVars, readerVars, packVars, fnVars>>

TarNext ==
    \/ \E idx \in TarIdx, objects \in TarRecords : TarWrite(idx, objects)
    \/ TarClose

SpecTar == TarInit /\ [][TarNext]_vars

(***************************************************************************)
(* Claims about the TarWriter                                              *)
(***************************************************************************)
Members == tw.tar_stream.members

(* C4: a write whose idx was already written to this shard raises          *)
(* ValueError and adds no tar member, and the indices of the writes that   *)
(* returned are pairwise distinct.                                         *)
C4_DuplicateIndexRaises ==
    /\ [][(tw_last'.op = "write" /\ tw_last'.idx \in tw.written_idx)
            => /\ tw_last'.exc = "ValueError"
               /\ tw'.tar_stream.members = Members
               /\ tw'.written_idx = tw.written_idx]_vars
    /\ [](\A i, j \in 1..Len(tw_log) : tw_log[i].idx = tw_log[j].idx => i = j)

(* a write of an index already written, with the right columns, was raised *)
C4_Witness ==
    /\ tw_last.op = "write"
    /\ tw_last.site = "written_idx"
    /\ tw_last.idx \in tw.written_idx
    /\ Len(Members) > 0

(* C5: a write whose record's column set differs from the schema's raises  *)
(* ValueError and leaves the archive's members and written_idx unchanged.  *)
C5_ColumnMismatchRaises ==
    [][(tw_last'.op = "write" /\ keys(tw_last'.objects) # keys(tw.features))
         => /\ tw_last'.exc = "ValueError"
            /\ tw'.tar_stream.members = Members
            /\ tw'.written_idx = tw.written_idx]_vars

(* a record with an extra column was rejected after another was written *)
C5_Witness ==
    /\ tw_last.op = "write"
    /\ tw_last.site = "keys"
    /\ keys(tw.features) \subseteq keys(tw_last.objects)
    /\ keys(tw.features) # keys(tw_last.objects)
    /\ Len(tw_log) > 0

LeafColumns(features) ==
    \A i \in 1..Len(features.items) : features.items[i][2].kind \in {"Text", "Audio"}

WrittenMembers ==
    SelectSeq(Members, LAMBDA m : _get_tar_index(m) \in tw.written_idx)

NumColumns == Len(tw.features.items)

Segment(j) == SubSeq(WrittenMembers, (j - 1) * (NumColumns + 1) + 1,
                     j * (NumColumns + 1))

(* the members of the j-th written record are the directory idx and one    *)
(* regular file idx/c per column c                                         *)
NamesExact(j) ==
    LET seg == Segment(j)
        idx == tw_log[j].idx
    IN  /\ seg[1] = [name |-> idx, type |-> "DIRTYPE", data |-> <<>>]
        /\ \A i \in 2..(NumColumns + 1) : seg[i].type = "REGTYPE"
        /\ \A c \in keys(tw.features) :
              \E i \in 2..(NumColumns + 1) : seg[i].name = idx \o <<"/">> \o c

ColumnOf(j, i) ==
    CHOOSE c \in keys(tw.features) : Segment(j)[i].name = tw_log[j].idx \o <<"/">> \o c

DecodedContent(j, i) ==
    Features_decode_column(tw.features, <<Bytes(Segment(j)[i].data)>>, ColumnOf(j, i))[1]

ArchiveLayout ==
    /\ Len(WrittenMembers) = Len(tw_log) * (NumColumns + 1)
    /\ \A j \in 1..Len(tw_log) : NamesExact(j)

(* C7 as stated: the content of every I/c decodes to the value written *)
C7_Original ==
    LeafColumns(tw.features)
    => /\ ArchiveLayout
       /\ \A j \in 1..Len(tw_log) : \A i \in 2..(NumColumns + 1) :
             /\ ~DecodedContent(j, i).raised
             /\ DecodedContent(j, i).value = getitem(tw_log[j].objects, ColumnOf(j, i))

(* C7: for a schema whose columns are all leaves the members of the        *)
(* written indices are, per index I in writing order, the directory I and  *)
(* one regular file I/c per column c; the content of I/c is the leaf's     *)
(* encoding of the value written, zero-length when the value is null, and  *)
(* for a Text column with a non-null value it decodes to that value.       *)
C7_ArchiveMembers ==
    LeafColumns(tw.features)
    => /\ ArchiveLayout
       /\ \A j \in 1..Len(tw_log) : \A i \in 2..(NumColumns + 1) :
             LET c == ColumnOf(j, i)
                 v == getitem(tw_log[j].objects, c)
                 feature == getitem(tw.features, c)
             IN  IF v.kind = "None" THEN Segment(j)[i].data = <<>>
                 ELSE /\ Segment(j)[i].data = encode_example(feature, v).value.data
                      /\ feature.kind = "Text"
                         => /\ ~DecodedContent(j, i).raised
                            /\ DecodedContent(j, i).value = v

(* two records of two Text columns are in the archive, one value null *)
C7_Witness ==
    /\ LeafColumns(tw.features)
    /\ NumColumns = 2
    /\ Len(tw_log) = 2
    /\ \E c \in keys(tw.features) : getitem(tw_log[1].objects, c).kind = "None"
    /\ \E c \in keys(tw.features) : getitem(tw_log[2].objects, c).kind = "str"

(* C27: a write(idx, record) that raises, for whatever reason (column      *)
(* mismatch, duplicate index, leaf encode error, numeric mapping key), is  *)
(* atomic: it adds no tar member and does not record idx as written.       *)
C27_RaisingWriteIsAtomic ==
    [][(tw_last'.op = "write" /\ tw_last'.exc # "")
         => /\ tw'.tar_stream.members = tw.tar_stream.members
            /\ tw'.written_idx = tw.written_idx]_vars

(* the part of C27 the code keeps: a write that raises never records idx,  *)
(* and adds no member unless the raise comes from inside _write_to_tar on  *)
(* an open archive                                                         *)
C27_AtomicOutsidePacking ==
    [][(tw_last'.op = "write" /\ tw_last'.exc # "")
         => /\ tw'.written_idx = tw.written_idx
            /\ (tw_last'.site # "_write_to_tar" \/ tw.tar_stream.closed)
                   => tw'.tar_stream.members = tw.tar_stream.members]_vars

(***************************************************************************)
(* ShardWriter                                                             *)
(***************************************************************************)
DefaultPattern == <<"%", "0", "5", "d">>

(* pattern % shard for a pattern "%0<width>d" *)
RECURSIVE ZeroPad(_, _)
ZeroPad(digits, width) ==
    IF Len(digits) >= width THEN digits ELSE ZeroPad(<<"0">> \o digits, width)

Format(pattern, n) == ZeroPad(str(n), DigitValue(pattern[3]))

(* os.path.basename: what follows the last "/" *)
basename(path) == LET parts == split(path) IN parts[Len(parts)]

(* DatasetInfo.write_to_json: the JSON object of the manifest *)
write_to_json(info) ==
    [kind |-> "json", file_list |-> info.file_list, features |-> info.features]

(* The state ShardWriter.__init__ leaves: its own next_stream() call has   *)
(* opened the first shard.                                                 *)
ShardName(path, pattern, shard) ==
    path \o <<"/">> \o Format(pattern, shard) \o <<".", "t", "a", "r">>

NewFile(name) == [name |-> name, members |-> <<>>, closed |-> FALSE]

ShardWriter(path, info, pattern, max_count, max_size) ==
    [path |-> path, pattern |-> pattern, info |-> info,
     max_count |-> max_count, max_size |-> max_size,
     writer_stream |-> TarWriter(info.features),
     shard |-> 1, count |-> 0, size |-> 0, total_count |-> 0,
     fname |-> ShardName(path, pattern, 0)]

(* the condition of ShardWriter.write with > for >= on the count *)
NeedsRoll_count_gt(w) ==
    \/ w.writer_stream = None
    \/ w.count > w.max_count
    \/ w.size > w.max_size

(* the condition of ShardWriter.write without its test of the size *)
NeedsRoll_without_size(w) ==
    \/ w.writer_stream = None
    \/ w.count >= w.max_count

(* the condition of ShardWriter.write under which it calls next_stream *)
NeedsRoll(w) ==
    \/ w.writer_stream = None
    \/ w.count >= w.max_count
    \/ w.size > w.max_size

(* finish() that forgets to append the basename to info.file_list *)
finish_without_append(w, fs) ==
    IF w.writer_stream # None
    THEN [w |-> [w EXCEPT !.writer_stream = None],
          fs |-> [fs EXCEPT ![Len(fs)] =
                     [@ EXCEPT !.members = w.writer_stream.tar_stream.members,
                               !.closed = TRUE]]]
    ELSE [w |-> w, fs |-> fs]

(* finish() that drops the writer without closing its tar stream *)
finish_without_close(w, fs) ==
    IF w.writer_stream # None
    THEN [w |-> [w EXCEPT !.info.file_list = Append(@, basename(w.fname)),
                          !.writer_stream = None],
          fs |-> fs]
    ELSE [w |-> w, fs |-> fs]

(* ShardWriter.finish: fs[Len(fs)] is the file of the open writer_stream *)
finish(w, fs) ==
    IF w.writer_stream # None
    THEN [w |-> [w EXCEPT !.info.file_list = Append(@, basename(w.fname)),
                          !.writer_stream = None],
          fs |-> [fs EXCEPT ![Len(fs)] =
                     [@ EXCEPT !.members = w.writer_stream.tar_stream.members,
                               !.closed = TRUE]]]
    ELSE [w |-> w, fs |-> fs]

(***************************************************************************)
(* The ShardWriter specification: a writer over a manifest with one Text   *)
(* column, any sequence of write and close calls, each call running        *)
(* statement by statement to its end before the next call starts.          *)
(***************************************************************************)
ShardPath == <<"o", "/", "d">>

ShardFeatures == Dict(<< <<ka, Text>> >>)

ShardRecords ==
    {Dict(<< <<ka, Str(<<"h", "e_acute">>)>> >>), Dict(<< <<ka, None>> >>),
     Dict(<<>>)}

OldFileLists == {<<>>, << <<"o", "l", "d">> >>}

(* max_size: one byte, and a budget no written shard reaches (the default  *)
(* of 3e9 is beyond the integers of the model checker)                     *)
MaxSizes == {1, 1000000}

ShardInit ==
    /\ hash_seed \in HashSeeds
    /\ sw_list0 \in OldFileLists
    /\ \E max_count \in 1..MaxMaxCount, max_size \in MaxSizes :
          sw = ShardWriter(ShardPath,
                           [file_list |-> sw_list0, features |-> ShardFeatures],
                           DefaultPattern, max_count, max_size)
    /\ files = <<NewFile(ShardName(ShardPath, DefaultPattern, 0))>>
    /\ sw_pc = "idle"
    /\ sw_arg = None
    /\ sw_hist = {}
    /\ manifest = None
    /\ tw = None
    /\ tw_last = None
    /\ tw_log = <<>>
    /\ NoStreams
    /\ NoReader
    /\ NoPack
    /\ NoFn

(* write(obj), line 46: the test that decides on next_stream() *)
ShardWrite(obj) ==
    /\ sw_pc = "idle"
    /\ sw.total_count < MaxRecords
    /\ NeedsRoll(sw) => Len(files) < MaxShards
    /\ sw_arg' = obj
    /\ sw_pc' = IF NeedsRoll(sw) THEN "next_stream" ELSE "writer_stream.write"
    /\ sw_hist' = sw_hist
                  \cup (IF sw.writer_stream = None THEN {"reopened"} ELSE {})
                  \cup (IF /\ sw.writer_stream # None
                           /\ sw.count < sw.max_count
                           /\ sw.size > sw.max_size
                        THEN {"size_roll"} ELSE {})
    /\ UNCHANGED <<hash_seed, tarVars, streamVars, readerVars, packVars, fnVars, sw, sw_list0, files, manifest>>

(* finish(), called first by next_stream() and by close() *)
ShardFinish ==
    /\ sw_pc \in {"next_stream", "close"}
    /\ LET r == finish(sw, files)
       IN  sw' = r.w /\ files' = r.fs
    /\ sw_pc' = IF sw_pc = "next_stream" THEN "open" ELSE "write_to_json"
    /\ UNCHANGED <<hash_seed, tarVars, streamVars, readerVars, packVars, fnVars, sw_arg, sw_hist, sw_list0, manifest>>

(* next_stream(), lines 39-43: open the next shard *)
ShardOpen ==
    /\ sw_pc = "open"
    /\ LET fname == ShardName(sw.path, sw.pattern, sw.shard)
       IN  /\ sw' = [sw EXCEPT !.fname = fname,
                               !.shard = @ + 1,
                               !.writer_stream = TarWriter(sw.info.features),
                               !.count = 0,
                               !.size = 0]
           /\ files' = Append(files, NewFile(fname))
    /\ sw_pc' = "writer_stream.write"
    /\ UNCHANGED <<hash_seed, tarVars, streamVars, readerVars, packVars, fnVars, sw_arg, sw_hist, sw_list0, manifest>>

(* write(obj), lines 48-51; a raise of TarWriter.write ends the call *)
ShardTarWrite ==
    /\ sw_pc = "writer_stream.write"
    /\ LET out == TarWriter_write(sw.writer_stream, str(sw.count), sw_arg)
       IN  IF out.exc # ""
           THEN /\ sw' = [sw EXCEPT !.writer_stream = out.w]
                /\ sw_hist' = sw_hist \cup {"raised"}
           ELSE /\ sw' = [sw EXCEPT !.writer_stream = out.w,
                                    !.count = @ + 1,
                                    !.size = @ + out.size,
                                    !.total_count = @ + 1]
                /\ sw_hist' = sw_hist
    /\ sw_pc' = "idle"
    /\ sw_arg' = None
    /\ UNCHANGED <<hash_seed, tarVars, streamVars, readerVars, packVars, fnVars, sw_list0, files, manifest>>

(* close(), line 61 *)
ShardClose ==
    /\ sw_pc = "idle"
    /\ sw_pc' = "close"
    /\ UNCHANGED <<hash_seed, tarVars, streamVars, readerVars, packVars, fnVars, sw, sw_arg, sw_hist, sw_list0, files, manifest>>

(* close(), line 63: write the manifest *)
ShardWriteManifest ==
    /\ sw_pc = "write_to_json"
    /\ manifest' = write_to_json(sw.info)
    /\ sw_pc' = "idle"
    /\ UNCHANGED <<hash_seed, tarVars, streamVars, readerVars, packVars, fnVars, sw, sw_arg, sw_hist, sw_list0, files>>

ShardNext ==
    \/ \E obj \in ShardRecords : ShardWrite(obj)
    \/ ShardFinish
    \/ ShardOpen
    \/ ShardTarWrite
    \/ ShardClose
    \/ ShardWriteManifest

SpecShard == ShardInit /\ [][ShardNext]_vars

(***************************************************************************)
(* Claims about the ShardWriter                                            *)
(***************************************************************************)
(* close() has returned and nothing was written since *)
Closed == sw_pc = "idle" /\ sw.writer_stream = None /\ manifest # None

(* only records that were written, only count rolls, one close at the end, *)
(* a manifest whose file_list was empty                                    *)
PlainRun == sw_hist = {} /\ sw_list0 = <<>>

Ceil(n, m) == (n + m - 1) \div m

NumShardsIs(n) ==
    /\ sw.shard = n
    /\ Len(files) = n
    /\ Len(sw.info.file_list) = n
    /\ Len(manifest.file_list) = n

ExpectedBasename(k) == <<"0", "0", "0", "0", DigitChars[k + 1], ".", "t", "a", "r">>

(* C2: after close(), starting from an empty file_list, the file_list in   *)
(* dataset_info.json holds the basename of every shard file the writer     *)
(* opened, once each, in creation order: pattern % 0, pattern % 1, ...     *)
C2_ManifestListsEveryShard ==
    (Closed /\ sw_list0 = <<>>)
    => /\ Len(manifest.file_list) = Len(files)
       /\ \A k \in 1..Len(files) :
             /\ manifest.file_list[k] = ExpectedBasename(k - 1)
             /\ files[k].name = ShardPath \o <<"/">> \o ExpectedBasename(k - 1)

(* a run with a size roll, a raised write and a write after close() *)
C2_Witness ==
    /\ Closed
    /\ sw_list0 = <<>>
    /\ Len(files) >= 3
    /\ sw_hist = {"size_roll", "raised", "reopened"}

Sealed(k) ==
    /\ files[k].closed
    /\ \E i \in 1..Len(sw.info.file_list) :
          sw.info.file_list[i] = ExpectedBasename(k - 1)

(* C3: at most one shard tar stream is open at any time, and every shard   *)
(* opened so far is closed and in file_list when the next shard file is    *)
(* opened and when the manifest JSON is written.                           *)
C3_SealedBeforeNext ==
    /\ [](Cardinality({k \in 1..Len(files) : ~files[k].closed}) <= 1)
    /\ [][Len(files') > Len(files) => \A k \in 1..Len(files) : Sealed(k)]_vars
    /\ [][sw_pc = "write_to_json" => \A k \in 1..Len(files) : Sealed(k)]_vars

(* a third shard was opened after a manifest had been written *)
C3_Witness ==
    /\ Len(files) >= 3
    /\ ~files[Len(files)].closed
    /\ manifest # None
    /\ files[1].members # <<>>

(* write() has decided: the step from the test of line 46 *)
WriteDecides == sw_pc = "idle" /\ sw_pc' \in {"next_stream", "writer_stream.write"}

(* C18: write() rolls to a new shard before writing exactly when no shard  *)
(* is open, or count >= max_count, or the byte tally > max_size, and       *)
(* otherwise writes to the current shard; a roll increments the shard      *)
(* counter by one and resets count and tally to 0; so a record is only     *)
(* ever written to an open shard with count < max_count and tally <=       *)
(* max_size.                                                               *)
C18_RollCondition ==
    /\ [][WriteDecides =>
             /\ sw_pc' = "next_stream" <=>
                    \/ sw.writer_stream = None
                    \/ sw.count >= sw.max_count
                    \/ sw.size > sw.max_size
             /\ sw' = sw
             /\ files' = files]_vars
    /\ [][sw_pc = "open" =>
             /\ sw'.shard = sw.shard + 1
             /\ sw'.count = 0
             /\ sw'.size = 0
             /\ sw'.writer_stream # None
             /\ Len(files') = Len(files) + 1
             /\ sw_pc' = "writer_stream.write"]_vars
    /\ [](sw_pc = "writer_stream.write" =>
             /\ sw.writer_stream # None
             /\ sw.count < sw.max_count
             /\ sw.size <= sw.max_size)
    /\ [][sw_pc = "writer_stream.write" =>
             /\ sw'.shard = sw.shard
             /\ files' = files
             /\ sw'.count \in {sw.count, sw.count + 1}]_vars

(* a record is about to be written to a shard that holds one record, after *)
(* an earlier write had rolled on the byte tally alone                     *)
C18_Witness ==
    /\ sw_pc = "writer_stream.write"
    /\ "size_roll" \in sw_hist
    /\ sw.count = 1
    /\ sw.max_count = 2
    /\ sw.shard >= 2

(***************************************************************************)
(* StreamWrapper.  A wrapper is named by its place in streams; parent 0 is *)
(* parent_stream None.  file_closed is the state of the wrapped file_obj.  *)
(***************************************************************************)
(* StreamWrapper() that leaves the parent's child_counter alone *)
StreamWrapper_without_count(heap, parent_stream) ==
    Append(heap,
           [parent_stream |-> parent_stream, child_counter |-> 0,
            close_on_last_child |-> FALSE, closed |-> FALSE,
            file_closed |-> FALSE])

(* StreamWrapper.__init__ *)
StreamWrapper(heap, parent_stream) ==
    Append(IF parent_stream # 0
           THEN [heap EXCEPT ![parent_stream].child_counter = @ + 1]
           ELSE heap,
           [parent_stream |-> parent_stream, child_counter |-> 0,
            close_on_last_child |-> FALSE, closed |-> FALSE,
            file_closed |-> FALSE])

(* close() without the test of self.closed *)
RECURSIVE close_without_closed_test(_, _)
close_without_closed_test(heap, self) ==
    LET parent == heap[self].parent_stream
        counted == IF parent # 0
                   THEN [heap EXCEPT ![parent].child_counter = @ - 1]
                   ELSE heap
        cascaded == IF /\ parent # 0
                       /\ counted[parent].child_counter = 0
                       /\ counted[parent].close_on_last_child
                    THEN close_without_closed_test(counted, parent)
                    ELSE counted
    IN  [cascaded EXCEPT ![self].file_closed = TRUE, ![self].closed = TRUE]

(* StreamWrapper.close *)
RECURSIVE close(_, _)
close(heap, self) ==
    IF heap[self].closed THEN heap
    ELSE LET parent == heap[self].parent_stream
             counted == IF parent # 0
                        THEN [heap EXCEPT ![parent].child_counter = @ - 1]
                        ELSE heap
             cascaded == IF /\ parent # 0
                            /\ counted[parent].child_counter = 0
                            /\ counted[parent].close_on_last_child
                         THEN close(counted, parent)
                         ELSE counted
         IN  [cascaded EXCEPT ![self].file_closed = TRUE, ![self].closed = TRUE]

(* autoclose() that only sets the flag *)
autoclose_flag_only(heap, self) ==
    [heap EXCEPT ![self].close_on_last_child = TRUE]

(* autoclose() that closes whatever the child counter *)
autoclose_at_once(heap, self) ==
    close([heap EXCEPT ![self].close_on_last_child = TRUE], self)

(* StreamWrapper.autoclose *)
autoclose(heap, self) ==
    LET flagged == [heap EXCEPT ![self].close_on_last_child = TRUE]
    IN  IF flagged[self].child_counter = 0 THEN close(flagged, self) ELSE flagged

(***************************************************************************)
(* The StreamWrapper specification: any sequence of constructions, close   *)
(* and autoclose calls on the wrappers constructed so far.                 *)
(***************************************************************************)
StreamInit ==
    /\ hash_seed \in HashSeeds
    /\ streams = <<>>
    /\ st_last = [op |-> "none"]
    /\ NoShardWriter
    /\ NoReader
    /\ NoPack
    /\ NoFn
    /\ tw = None
    /\ tw_last = None
    /\ tw_log = <<>>

StreamNew(parent_stream) ==
    /\ Len(streams) < MaxStreams
    /\ streams' = StreamWrapper(streams, parent_stream)
    /\ st_last' = [op |-> "__init__", self |-> Len(streams) + 1, was_closed |-> FALSE]
    /\ UNCHANGED <<hash_seed, tarVars, shardVars, readerVars, packVars, fnVars>>

StreamClose(self) ==
    /\ streams' = close(streams, self)
    /\ st_last' = [op |-> "close", self |-> self, was_closed |-> streams[self].closed]
    /\ UNCHANGED <<hash_seed, tarVars, shardVars, readerVars, packVars, fnVars>>

StreamAutoclose(self) ==
    /\ streams' = autoclose(streams, self)
    /\ st_last' = [op |-> "autoclose", self |-> self,
                   was_closed |-> streams[self].closed]
    /\ UNCHANGED <<hash_seed, tarVars, shardVars, readerVars, packVars, fnVars>>

StreamNext ==
    \/ \E parent_stream \in 0..Len(streams) : StreamNew(parent_stream)
    \/ \E self \in 1..Len(streams) : StreamClose(self)
    \/ \E self \in 1..Len(streams) : StreamAutoclose(self)

SpecStream == StreamInit /\ [][StreamNext]_vars

(***************************************************************************)
(* Claims about the StreamWrapper                                          *)
(***************************************************************************)
(* C9: close() is idempotent: the first close() of a handle with a parent  *)
(* decrements the parent's child counter by one, and every later close()   *)
(* changes no state of any handle.                                         *)
C9_CloseIdempotent ==
    [][st_last'.op = "close"
         => LET self == st_last'.self
                parent == streams[self].parent_stream
            IN  IF streams[self].closed THEN streams' = streams
                ELSE /\ streams'[self].closed
                     /\ parent # 0 => streams'[parent].child_counter
                                        = streams[parent].child_counter - 1]_vars

(* a closed handle with a parent was closed again *)
C9_Witness ==
    /\ st_last.op = "close"
    /\ st_last.was_closed
    /\ streams[st_last.self].parent_stream # 0
    /\ streams[streams[st_last.self].parent_stream].child_counter > 0

(* C10: a StreamWrapper on which autoclose() was called is closed whenever *)
(* its child counter is zero: autoclose() closes it when it has no open    *)
(* child, and otherwise the close() of its last open child does.           *)
C10_AutocloseOnLastChild ==
    \A self \in 1..Len(streams) :
        (streams[self].close_on_last_child /\ streams[self].child_counter = 0)
        => streams[self].closed /\ streams[self].file_closed

(* the second child of an autoclose parent was closed first, and the close *)
(* of the first child then closed the parent                               *)
C10_Witness ==
    /\ st_last.op = "close"
    /\ ~st_last.was_closed
    /\ LET parent == streams[st_last.self].parent_stream
       IN  /\ parent # 0
           /\ streams[parent].close_on_last_child
           /\ streams[parent].closed
           /\ \E other \in (st_last.self + 1)..Len(streams) :
                 streams[other].parent_stream = parent /\ streams[other].closed

(* the handles constructed with parent as parent_stream and not yet closed *)
OpenChildren(parent) ==
    {self \in 1..Len(streams) :
        streams[self].parent_stream = parent /\ ~streams[self].closed}

(* C26: after any sequence of constructions, close() calls (repeated ones  *)
(* and closes of a parent before its children included) and autoclose()    *)
(* calls, the child_counter of every handle is at least 0 and equals the   *)
(* number of not yet closed handles constructed with it as parent.         *)
C26_CounterCountsOpenChildren ==
    \A parent \in 1..Len(streams) :
        /\ streams[parent].child_counter >= 0
        /\ streams[parent].child_counter = Cardinality(OpenChildren(parent))

(* a parent closed before its two children; one child was then closed, and *)
(* closed once more                                                        *)
C26_Witness ==
    /\ st_last.op = "close"
    /\ st_last.was_closed
    /\ LET parent == streams[st_last.self].parent_stream
       IN  /\ parent # 0
           /\ parent < st_last.self
           /\ streams[parent].closed
           /\ streams[parent].child_counter = 1
           /\ \E other \in 1..Len(streams) :
                 /\ other # st_last.self
                 /\ streams[other].parent_stream = parent
                 /\ ~streams[other].closed

(***************************************************************************)
(* The tar layout on its own: one tree is packed under an index by         *)
(* _write_to_tar, the archive is scanned by _feature_stream and the group  *)
(* is composed by _compose_feature.                                        *)
(***************************************************************************)
SeqsUpTo(S, n) == UNION {[1..m -> S] : m \in 0..n}

PackLeaves == {Bytes(<<104>>), None}

PackContainers ==
    {List(e) : e \in SeqsUpTo(PackLeaves, MaxListLen)} \cup DictsOver(PackLeaves)

PackTrees ==
    DictsOver(PackLeaves \cup PackContainers)
        \cup PackContainers
        \cup {List(<<x>>) : x \in PackContainers}

PackIdx == <<"7">>

PackInit ==
    /\ hash_seed \in HashSeeds
    /\ \E tree \in PackTrees : pk = [tree |-> tree, idx |-> PackIdx]
    /\ pk_pc = "start"
    /\ pk_tar = <<>>
    /\ pk_group = <<>>
    /\ pk_out = None
    /\ NoShardWriter
    /\ NoStreams
    /\ NoReader
    /\ NoFn
    /\ tw = None
    /\ tw_last = None
    /\ tw_log = <<>>

(* _write_to_tar(tar_stream, idx, tree) *)
PackWrite ==
    /\ pk_pc = "start"
    /\ LET r == _write_to_tar(pk.idx, pk.tree)
       IN  /\ pk_tar' = r.tar
           /\ pk_pc' = IF r.raised THEN "ValueError" ELSE "packed"
    /\ UNCHANGED <<hash_seed, tarVars, shardVars, streamVars, readerVars, fnVars, pk,
                   pk_group, pk_out>>

(* next(_feature_stream(tar_stream)) *)
PackScan ==
    /\ pk_pc = "packed"
    /\ LET g == _feature_stream_next(pk_tar, 1)
       IN  /\ pk_group' = g.group
           /\ pk_pc' = IF g.done THEN "StopIteration" ELSE "scanned"
    /\ UNCHANGED <<hash_seed, tarVars, shardVars, streamVars, readerVars, fnVars, pk,
                   pk_tar, pk_out>>

(* _compose_feature(tar_stream, feature_group) *)
PackCompose ==
    /\ pk_pc = "scanned"
    /\ LET c == _compose_feature(pk_group, 0)
       IN  /\ pk_out' = c.value
           /\ pk_pc' = IF c.raised THEN "AssertionError" ELSE "composed"
    /\ UNCHANGED <<hash_seed, tarVars, shardVars, streamVars, readerVars, fnVars, pk,
                   pk_tar, pk_group>>

PackNext ==
    \/ PackWrite
    \/ PackScan
    \/ PackCompose

SpecPack == PackInit /\ [][PackNext]_vars

(***************************************************************************)
(* Claims about the tar layout                                             *)
(***************************************************************************)
RECURSIVE NoDigitKeys(_)
NoDigitKeys(tree) ==
    IF tree.kind = "dict"
    THEN \A i \in 1..Len(tree.items) :
            ~isdigit(tree.items[i][1]) /\ NoDigitKeys(tree.items[i][2])
    ELSE IF tree.kind = "list"
    THEN \A i \in 1..Len(tree.elems) : NoDigitKeys(tree.elems[i])
    ELSE TRUE

(* the unpacked tree is the packed one: a dict for a dict with the same    *)
(* keys, a list for a list with the same length and order, and for a leaf  *)
(* a handle on the leaf's bytes (no bytes for a null leaf)                 *)
RECURSIVE SameTree(_, _)
SameTree(tree, out) ==
    IF tree.kind = "dict"
    THEN /\ out.kind = "dict"
         /\ keys(out) = keys(tree)
         /\ Len(out.items) = Len(tree.items)
         /\ \A k \in keys(tree) : SameTree(getitem(tree, k), getitem(out, k))
    ELSE IF tree.kind = "list"
    THEN /\ out.kind = "list"
         /\ Len(out.elems) = Len(tree.elems)
         /\ \A i \in 1..Len(tree.elems) : SameTree(tree.elems[i], out.elems[i])
    ELSE /\ out.kind = "StreamWrapper"
         /\ out.data = (IF tree.kind = "None" THEN <<>> ELSE tree.data)

(* C6: a tree of dicts and lists whose keys are not all digits, packed     *)
(* under an index and unpacked, comes back as the same tree: no step       *)
(* raises, and the composed feature has the same dicts, lists and leaves.  *)
C6_TarLayoutFidelity ==
    NoDigitKeys(pk.tree)
        => /\ pk_pc \notin {"ValueError", "StopIteration", "AssertionError"}
           /\ pk_pc = "composed" => SameTree(pk.tree, pk_out)

(* the path of a member below the index follows the tree: a key of a      *)
(* mapping that is not all-digit, or the position of an element of a list  *)
RECURSIVE PathInTree(_, _)
PathInTree(tree, parts) ==
    IF Len(parts) = 0 THEN TRUE
    ELSE IF tree.kind = "dict"
    THEN /\ ~isdigit(parts[1])
         /\ parts[1] \in keys(tree)
         /\ PathInTree(getitem(tree, parts[1]), Tail(parts))
    ELSE IF tree.kind = "list"
    THEN /\ isdigit(parts[1])
         /\ int(parts[1]) < Len(tree.elems)
         /\ PathInTree(tree.elems[int(parts[1]) + 1], Tail(parts))
    ELSE FALSE

(* C22: packing raises ValueError for every tree that has, at any depth,   *)
(* a mapping with an all-digit key, and for no other tree; no member of    *)
(* the archive, also after a raise, has an all-digit path component that   *)
(* stands for a mapping key.                                               *)
C22_DigitKeysRejected ==
    /\ pk_pc # "start" => (pk_pc = "ValueError" <=> ~NoDigitKeys(pk.tree))
    /\ \A i \in 1..Len(pk_tar) : PathInTree(pk.tree, Tail(split(pk_tar[i].name)))

(* a digit key one level down, after a sibling that was written *)
C22_Witness ==
    /\ pk_pc = "ValueError"
    /\ pk.tree.kind = "dict"
    /\ \A i \in 1..Len(pk.tree.items) : ~isdigit(pk.tree.items[i][1])
    /\ Len(pk_tar) >= 3

(***************************************************************************)
(* TarReader.  The shards read are archives a TarWriter wrote for the      *)
(* reader's schema.                                                        *)
(***************************************************************************)
TarReader(tar_files, features) == [tar_files |-> tar_files, features |-> features]

(* the archive a TarWriter over features holds after writing objs[i] under *)
(* index str(i - 1), as the ShardWriter does                               *)
RECURSIVE WriteAll(_, _, _)
WriteAll(w, objs, i) ==
    IF i > Len(objs) THEN w
    ELSE WriteAll(TarWriter_write(w, str(i - 1), objs[i]).w, objs, i + 1)

ArchiveOf(features, objs) == WriteAll(TarWriter(features), objs, 1).tar_stream.members

(* n new StreamWrappers with the same parent_stream *)
RECURSIVE NewChildren(_, _, _)
NewChildren(heap, parent_stream, n) ==
    IF n = 0 THEN heap
    ELSE NewChildren(StreamWrapper(heap, parent_stream), parent_stream, n - 1)

(* close() on every wrapper of a set *)
RECURSIVE CloseAll(_, _)
CloseAll(heap, selves) ==
    IF selves = {} THEN heap
    ELSE LET self == CHOOSE h \in selves : TRUE
         IN  CloseAll(close(heap, self), selves \ {self})

(* the StreamWrappers a decoded value holds: those inside AudioDecoders *)
RECURSIVE HandlesOf(_)
HandlesOf(value) ==
    IF value.kind = "dict"
    THEN UNION {HandlesOf(value.items[i][2]) : i \in 1..Len(value.items)}
    ELSE IF value.kind = "list"
    THEN UNION {HandlesOf(value.elems[i]) : i \in 1..Len(value.elems)}
    ELSE IF value.kind = "AudioDecoder"
    THEN (IF value.fobj.kind = "StreamWrapper" THEN {value.fobj.id} ELSE {})
    ELSE {}

(***************************************************************************)
(* The TarReader specification: one iteration of one reader, the consumer  *)
(* taking every record, and closing (or dropping, which finalizes) the     *)
(* handles inside the records at any time.                                 *)
(***************************************************************************)
ReaderSchemas ==
    {Dict(<< <<ka, Text>> >>), Dict(<< <<ka, Audio>> >>),
     Dict(<< <<ka, Text>>, <<kb, Audio>> >>)}

LeafValues(feature) ==
    IF feature.kind = "Text" THEN {Str(<<"h">>), None} ELSE {FileObj(<<104>>)}

ReaderRecords(features) ==
    {Dict([i \in 1..Len(features.items) |-> <<features.items[i][1], f[i]>>]) :
        f \in {g \in [1..Len(features.items) -> TarValues \cup {Str(<<"h">>)}] :
                  \A i \in 1..Len(features.items) :
                     g[i] \in LeafValues(features.items[i][2])}}

ReaderArchives(features) ==
    {ArchiveOf(features, objs) :
        objs \in SeqsUpTo(ReaderRecords(features), MaxArchiveRecords)}

(* shards that were not written for the reader's schema: a record stored  *)
(* as the single regular file named by its index, and one-record shards   *)
(* written under the other schemas                                        *)
SingleFileArchive == <<FileMember(<<"0">>, <<104>>)>>

ForeignArchives(features) ==
    {SingleFileArchive}
        \cup UNION {{ArchiveOf(other, <<obj>>) : obj \in ReaderRecords(other)} :
                       other \in ReaderSchemas \ {features}}

ReaderInit ==
    /\ hash_seed \in HashSeeds
    /\ \E features \in ReaderSchemas :
          \E tar_files \in SeqsUpTo(ReaderArchives(features)
                                       \cup ForeignArchives(features), MaxTarFiles) :
             rd = TarReader(tar_files, features)
    /\ rd_pc = "for"
    /\ rd_shard = 0
    /\ rd_pos = 0
    /\ rd_tar_stream = 0
    /\ rd_out = <<>>
    /\ streams = <<>>
    /\ st_last = None
    /\ NoShardWriter
    /\ NoPack
    /\ NoFn
    /\ tw = None
    /\ tw_last = None
    /\ tw_log = <<>>

(* lines 116-121: the next tar file is opened and wrapped *)
ReaderOpen ==
    /\ rd_pc = "for"
    /\ rd_shard < Len(rd.tar_files)
    /\ rd_shard' = rd_shard + 1
    /\ streams' = StreamWrapper(streams, 0)
    /\ rd_tar_stream' = Len(streams) + 1
    /\ rd_pos' = 1
    /\ rd_pc' = "next"
    /\ UNCHANGED <<hash_seed, tarVars, shardVars, packVars, fnVars, st_last, rd, rd_out>>

(* line 116: no tar file is left *)
ReaderDone ==
    /\ rd_pc = "for"
    /\ rd_shard = Len(rd.tar_files)
    /\ rd_pc' = "done"
    /\ UNCHANGED <<hash_seed, tarVars, shardVars, packVars, fnVars, streamVars, rd, rd_shard, rd_pos,
                   rd_tar_stream, rd_out>>

(* lines 123-132: next(example_stream), decode, yield; StopIteration and   *)
(* every exception run the finally clause                                  *)
ReaderNextExample ==
    /\ rd_pc \in {"next", "yield"}
    /\ LET g == _feature_stream_next(rd.tar_files[rd_shard], rd_pos)
           composed == _compose_feature(g.group, Len(streams))
           created == IF Len(g.group) = 1 THEN 1 ELSE CountFiles(g.group)
           extracted == NewChildren(streams, rd_tar_stream, created)
           decoded == Features_decode_example(rd.features, composed.value)
       IN  IF g.done
           THEN /\ streams' = autoclose(streams, rd_tar_stream)
                /\ rd_pc' = "for"
                /\ UNCHANGED <<rd_pos, rd_out>>
           ELSE IF composed.raised
           THEN /\ streams' = autoclose(streams, rd_tar_stream)
                /\ rd_pc' = "raised"
                /\ UNCHANGED <<rd_pos, rd_out>>
           ELSE IF decoded.raised
           THEN /\ streams' = autoclose(CloseAll(extracted, decoded.closed),
                                        rd_tar_stream)
                /\ rd_pc' = "raised"
                /\ UNCHANGED <<rd_pos, rd_out>>
           ELSE /\ streams' = CloseAll(extracted, decoded.closed)
                /\ rd_pc' = "yield"
                /\ rd_pos' = g.next
                /\ rd_out' = Append(rd_out, [tar_file |-> rd_shard,
                                             index |-> g.index,
                                             example |-> decoded.value])
    /\ UNCHANGED <<hash_seed, tarVars, shardVars, packVars, fnVars, st_last, rd, rd_shard,
                   rd_tar_stream>>

(* the consumer closes the generator at a yield: GeneratorExit runs the    *)
(* finally clause                                                          *)
ReaderAbort ==
    /\ rd_pc = "yield"
    /\ streams' = autoclose(streams, rd_tar_stream)
    /\ rd_pc' = "aborted"
    /\ UNCHANGED <<hash_seed, tarVars, shardVars, packVars, fnVars, st_last, rd, rd_shard, rd_pos,
                   rd_tar_stream, rd_out>>

(* the consumer closes a handle held by a record it was given, or drops    *)
(* the record, whose __del__ closes the handle                             *)
ReaderCallerClose(self) ==
    /\ \E i \in 1..Len(rd_out) : self \in HandlesOf(rd_out[i].example)
    /\ ~streams[self].closed
    /\ streams' = close(streams, self)
    /\ UNCHANGED <<hash_seed, tarVars, shardVars, st_last, readerVars, packVars, fnVars>>

ReaderNext ==
    \/ ReaderOpen
    \/ ReaderDone
    \/ ReaderNextExample
    \/ ReaderAbort
    \/ \E self \in 1..Len(streams) : ReaderCallerClose(self)

SpecReader == ReaderInit /\ [][ReaderNext]_vars

(***************************************************************************)
(* Claims about the handles of the TarReader                               *)
(***************************************************************************)
(* C8: after the iteration has run to completion over all shards, every    *)
(* shard handle and every member handle the reader created is closed (the  *)
(* consumer of this specification asks for no handle: the only handles     *)
(* that reach it are those the AudioDecoders of its records hold).         *)
C8_HandleDiscipline ==
    rd_pc = "done" => \A self \in 1..Len(streams) : streams[self].closed

(***************************************************************************)
(* Claims about the order of the records a TarReader yields                *)
(***************************************************************************)
(* the first members of the maximal runs of members with one index *)
RunStarts(members) ==
    {i \in 1..Len(members) :
        i = 1 \/ split(members[i].name)[1] # split(members[i - 1].name)[1]}

(* the elements of a set of numbers in increasing order *)
RECURSIVE Ascending(_)
Ascending(S) ==
    IF S = {} THEN <<>>
    ELSE LET m == CHOOSE x \in S : \A y \in S : x <= y
         IN  <<m>> \o Ascending(S \ {m})

(* (shard, index) of every member group of shards k.. in reading order *)
RECURSIVE GroupsFrom(_, _)
GroupsFrom(tar_files, k) ==
    IF k > Len(tar_files) THEN <<>>
    ELSE LET starts == Ascending(RunStarts(tar_files[k]))
         IN  [i \in 1..Len(starts) |->
                 <<k, split(tar_files[k][starts[i]].name)[1]>>]
             \o GroupsFrom(tar_files, k + 1)

Yielded == [i \in 1..Len(rd_out) |-> <<rd_out[i].tar_file, rd_out[i].index>>]

IsPrefix(s, t) == Len(s) <= Len(t) /\ s = SubSeq(t, 1, Len(s))

(* C11: the records yielded so far are, in order, the first member groups  *)
(* of the shard list read shard by shard and group by group, none skipped  *)
(* and none twice; a completed iteration has yielded every group.          *)
C11_YieldOrder ==
    /\ IsPrefix(Yielded, GroupsFrom(rd.tar_files, 1))
    /\ rd_pc = "done" => Yielded = GroupsFrom(rd.tar_files, 1)

C11_Witness ==
    /\ rd_pc = "done"
    /\ \E i, j \in 1..Len(rd_out) :
          i < j /\ rd_out[i].tar_file = 1 /\ rd_out[j].tar_file = 1
    /\ \E i \in 1..Len(rd_out) : rd_out[i].tar_file = 2

(***************************************************************************)
(* Claims about the shard handle of the TarReader                          *)
(***************************************************************************)
(* C12: once the iteration is aborted part-way through a shard, by the     *)
(* consumer closing the generator or by an exception raised while a record *)
(* is produced, the tar stream of the shard being read is closed.          *)
C12_AbortClosesTarStream ==
    rd_pc \in {"aborted", "raised"} => streams[rd_tar_stream].closed

(* the member handles created from a shard handle that are still open *)
OpenMembers(parent) ==
    {self \in 1..Len(streams) :
        streams[self].parent_stream = parent /\ ~streams[self].closed}

(* C19: the reader never closes a shard handle while a member handle       *)
(* created from it is open: the shard being read is open and unmarked; a   *)
(* shard the reader has left is marked autoclose, stays open while a       *)
(* member handle is open, and is closed once the last one is closed.       *)
C19_ShardOutlivesMembers ==
    \A shard \in 1..Len(streams) :
        streams[shard].parent_stream = 0 =>
            /\ streams[shard].closed => OpenMembers(shard) = {}
            /\ streams[shard].closed => streams[shard].close_on_last_child
            /\ (shard = rd_tar_stream /\ rd_pc \in {"next", "yield"})
                   => ~streams[shard].close_on_last_child
            /\ (shard # rd_tar_stream \/ rd_pc \notin {"next", "yield"})
                   => /\ streams[shard].close_on_last_child
                      /\ OpenMembers(shard) = {} => streams[shard].closed

(* the iteration is over; one shard is kept open by a member handle the    *)
(* consumer holds, another was closed after all its member handles were    *)
C19_Witness ==
    /\ rd_pc = "done"
    /\ \E shard \in 1..Len(streams) :
          /\ streams[shard].parent_stream = 0
          /\ ~streams[shard].closed
          /\ \E self \in OpenMembers(shard) :
                \E i \in 1..Len(rd_out) : self \in HandlesOf(rd_out[i].example)
    /\ \E shard \in 1..Len(streams) :
          /\ streams[shard].parent_stream = 0
          /\ streams[shard].closed
          /\ \E self \in 1..Len(streams) :
                /\ streams[self].parent_stream = shard
                /\ \E i \in 1..Len(rd_out) : self \in HandlesOf(rd_out[i].example)

(***************************************************************************)
(* Claims about the two stored forms of a single-column record             *)
(***************************************************************************)
(* the members of a shard whose name starts with an index *)
GroupOf(members, index) ==
    SelectSeq(members, LAMBDA tarinfo : split(tarinfo.name)[1] = index)

(* the record is the one regular file named by its index *)
SingleFileForm(group, index) ==
    /\ Len(group) = 1
    /\ isfile(group[1])
    /\ group[1].name = index

(* the record is the directory named by its index and the file index/c *)
DirectoryForm(group, index, c) ==
    /\ Len(group) = 2
    /\ isdir(group[1])
    /\ group[1].name = index
    /\ isfile(group[2])
    /\ group[2].name = JoinPath(index, c)

(* value is what the column's feature decodes the stored bytes to *)
DecodedFrom(feature, data, value) ==
    IF feature.kind = "Audio"
    THEN value.kind = "AudioDecoder" /\ value.fobj.data = data
    ELSE value = (IF Len(data) = 0 THEN None ELSE Text_decode_example(Bytes(data)).value)

(* C16: under a schema with the single column c, a record stored as the    *)
(* one regular file I and a record stored as the directory I with the file *)
(* I/c are both yielded, under index I, as the record {c: decoded value}.  *)
C16_BothRecordForms ==
    Len(rd.features.items) = 1 =>
        LET c == rd.features.items[1][1]
            feature == rd.features.items[1][2]
        IN  /\ \A i \in 1..Len(rd_out) :
                  LET group == GroupOf(rd.tar_files[rd_out[i].tar_file], rd_out[i].index)
                  IN  \/ SingleFileForm(group, rd_out[i].index)
                      \/ DirectoryForm(group, rd_out[i].index, c)
                      => /\ rd_out[i].example.kind = "dict"
                         /\ keys(rd_out[i].example) = {c}
                         /\ DecodedFrom(feature, group[Len(group)].data,
                                        getitem(rd_out[i].example, c))
            /\ rd_pc = "raised" =>
                  LET g == _feature_stream_next(rd.tar_files[rd_shard], rd_pos)
                  IN  /\ ~SingleFileForm(g.group, g.index)
                      /\ ~DirectoryForm(g.group, g.index, c)

(* the same, for the records stored in the directory form only *)
C16_DirectoryFormOnly ==
    Len(rd.features.items) = 1 =>
        LET c == rd.features.items[1][1]
            feature == rd.features.items[1][2]
        IN  /\ \A i \in 1..Len(rd_out) :
                  LET group == GroupOf(rd.tar_files[rd_out[i].tar_file], rd_out[i].index)
                  IN  DirectoryForm(group, rd_out[i].index, c)
                      => /\ rd_out[i].example.kind = "dict"
                         /\ keys(rd_out[i].example) = {c}
                         /\ DecodedFrom(feature, group[Len(group)].data,
                                        getitem(rd_out[i].example, c))
            /\ rd_pc = "raised" =>
                  LET g == _feature_stream_next(rd.tar_files[rd_shard], rd_pos)
                  IN  ~DirectoryForm(g.group, g.index, c)

(***************************************************************************)
(* DatasetInfo and its JSON file                                           *)
(***************************************************************************)
DatasetInfo(description, file_list, features, size_in_bytes, metadata) ==
    [kind |-> "DatasetInfo", description |-> description, file_list |-> file_list,
     features |-> features, size_in_bytes |-> size_in_bytes, metadata |-> metadata]

MISSING == [kind |-> "MISSING"]

(* the name of the class of a dataclass instance, the value of its _type *)
ClassName(kind) ==
    CASE kind = "Text" -> <<"T", "e", "x", "t">>
      [] kind = "Json" -> <<"J", "s", "o", "n">>
      [] kind = "Tensor" -> <<"T", "e", "n", "s", "o", "r">>
      [] kind = "Scalar" -> <<"S", "c", "a", "l", "a", "r">>
      [] kind = "Audio" -> <<"A", "u", "d", "i", "o">>
      [] kind = "Sequence" -> <<"S", "e", "q", "u", "e", "n", "c", "e">>
      [] OTHER -> <<>>

Field(name, attr, init, default) ==
    [name |-> name, attr |-> attr, init |-> init, default |-> default]

TypeField(kind) == Field(<<"_", "t", "y", "p", "e">>, "_type", FALSE, Str(ClassName(kind)))

(* dataclasses.fields(obj), in definition order *)
fields(obj) ==
    CASE obj.kind \in {"Text", "Json"} -> <<TypeField(obj.kind)>>
      [] obj.kind \in {"Tensor", "Scalar"} ->
            <<Field(<<"s", "h", "a", "p", "e">>, "shape", TRUE, MISSING),
              Field(<<"d", "t", "y", "p", "e">>, "dtype", TRUE, MISSING), TypeField(obj.kind)>>
      [] obj.kind = "Audio" ->
            <<Field(<<"s", "h", "a", "p", "e">>, "shape", TRUE, MISSING),
              Field(<<"d", "t", "y", "p", "e">>, "dtype", TRUE, MISSING), TypeField(obj.kind),
              Field(<<"s", "a", "m", "p", "l", "e", "_", "r", "a", "t", "e">>, "sample_rate", TRUE, MISSING)>>
      [] obj.kind = "Sequence" ->
            <<Field(<<"f", "e", "a", "t", "u", "r", "e">>, "feature", TRUE, MISSING),
              Field(<<"l", "e", "n", "g", "t", "h">>, "length", TRUE, PyInt(-1)), TypeField(obj.kind)>>
      [] obj.kind = "DatasetInfo" ->
            <<Field(<<"d", "e", "s", "c", "r", "i", "p", "t", "i", "o", "n">>, "description", TRUE, MISSING),
              Field(<<"f", "i", "l", "e", "_", "l", "i", "s", "t">>, "file_list", TRUE, MISSING),
              Field(<<"f", "e", "a", "t", "u", "r", "e", "s">>, "features", TRUE, None),
              Field(<<"s", "i", "z", "e", "_", "i", "n", "_", "b", "y", "t", "e", "s">>, "size_in_bytes", TRUE, None),
              Field(<<"m", "e", "t", "a", "d", "a", "t", "a">>, "metadata", TRUE, None)>>
      [] OTHER -> <<>>

is_dataclass(obj) ==
    obj.kind \in {"Text", "Json", "Tensor", "Scalar", "Audio", "Sequence", "DatasetInfo"}

getattr(obj, f) == IF f.attr = "_type" THEN Str(ClassName(obj.kind)) ELSE obj[f.attr]

(* asdict: a dataclass becomes the dict of its fields that are not         *)
(* init fields holding their default                                       *)
RECURSIVE _asdict_inner(_)
_asdict_inner(obj) ==
    IF is_dataclass(obj)
    THEN LET fs == fields(obj)
             value(i) == _asdict_inner(getattr(obj, fs[i]))
             kept == SelectSeq([i \in 1..Len(fs) |-> i],
                               LAMBDA i : ~fs[i].init \/ value(i) # fs[i].default)
         IN  Dict([j \in 1..Len(kept) |-> <<fs[kept[j]].name, value(kept[j])>>])
    ELSE IF obj.kind = "list"
    THEN List([i \in 1..Len(obj.elems) |-> _asdict_inner(obj.elems[i])])
    ELSE IF obj.kind = "tuple"
    THEN Tuple([i \in 1..Len(obj.elems) |-> _asdict_inner(obj.elems[i])])
    ELSE IF obj.kind = "dict"
    THEN Dict([i \in 1..Len(obj.items) |->
                  <<obj.items[i][1], _asdict_inner(obj.items[i][2])>>])
    ELSE obj

asdict(obj) ==
    IF obj.kind # "dict" /\ ~is_dataclass(obj) THEN [kind |-> "TypeError"]
    ELSE _asdict_inner(obj)

(* DatasetInfo._dump_info *)
_dump_info(info) == json_dumps(asdict(info))

(* d.get(k, default) *)
get(d, k, default) == IF k \in keys(d) THEN getitem(d, k) ELSE default

(* a Sequence regenerated without its length *)
RECURSIVE generate_from_dict_no_length(_)
generate_from_dict_no_length(obj) ==
    IF obj.kind = "list"
    THEN List([i \in 1..Len(obj.elems) |-> generate_from_dict_no_length(obj.elems[i])])
    ELSE IF obj.kind # "dict" THEN [kind |-> "TypeError"]
    ELSE IF <<"_", "t", "y", "p", "e">> \notin keys(obj) \/ getitem(obj, <<"_", "t", "y", "p", "e">>).kind = "dict"
    THEN Dict([i \in 1..Len(obj.items) |->
                  <<obj.items[i][1], generate_from_dict_no_length(obj.items[i][2])>>])
    ELSE LET class_type == getitem(obj, <<"_", "t", "y", "p", "e">>).chars
         IN  IF class_type = ClassName("Sequence")
             THEN Sequence(generate_from_dict_no_length(getitem(obj, <<"f", "e", "a", "t", "u", "r", "e">>)))
             ELSE IF class_type = ClassName("Text") THEN Text
             ELSE IF class_type = ClassName("Json") THEN Json
             ELSE IF class_type = ClassName("Tensor")
             THEN Tensor(getitem(obj, <<"s", "h", "a", "p", "e">>), getitem(obj, <<"d", "t", "y", "p", "e">>))
             ELSE IF class_type = ClassName("Scalar")
             THEN Scalar(getitem(obj, <<"d", "t", "y", "p", "e">>))
             ELSE IF class_type = ClassName("Audio")
             THEN Audio_init(get(obj, <<"s", "h", "a", "p", "e">>, Tuple(<<None>>)),
                             get(obj, <<"d", "t", "y", "p", "e">>, Str(<<"f", "l", "o", "a", "t", "3", "2">>)),
                             get(obj, <<"s", "a", "m", "p", "l", "e", "_", "r", "a", "t", "e">>, None))
             ELSE [kind |-> "AttributeError"]

RECURSIVE generate_from_dict(_)
generate_from_dict(obj) ==
    IF obj.kind = "list"
    THEN List([i \in 1..Len(obj.elems) |-> generate_from_dict(obj.elems[i])])
    ELSE IF obj.kind # "dict" THEN [kind |-> "TypeError"]
    ELSE IF <<"_", "t", "y", "p", "e">> \notin keys(obj) \/ getitem(obj, <<"_", "t", "y", "p", "e">>).kind = "dict"
    THEN Dict([i \in 1..Len(obj.items) |->
                  <<obj.items[i][1], generate_from_dict(obj.items[i][2])>>])
    ELSE LET class_type == getitem(obj, <<"_", "t", "y", "p", "e">>).chars
         IN  IF class_type = ClassName("Sequence")
             THEN Sequence_init(generate_from_dict(getitem(obj, <<"f", "e", "a", "t", "u", "r", "e">>)),
                                get(obj, <<"l", "e", "n", "g", "t", "h">>, PyInt(-1)))
             ELSE IF class_type = ClassName("Text") THEN Text
             ELSE IF class_type = ClassName("Json") THEN Json
             ELSE IF class_type = ClassName("Tensor")
             THEN Tensor(getitem(obj, <<"s", "h", "a", "p", "e">>), getitem(obj, <<"d", "t", "y", "p", "e">>))
             ELSE IF class_type = ClassName("Scalar")
             THEN Scalar(getitem(obj, <<"d", "t", "y", "p", "e">>))
             ELSE IF class_type = ClassName("Audio")
             THEN Audio_init(get(obj, <<"s", "h", "a", "p", "e">>, Tuple(<<None>>)),
                             get(obj, <<"d", "t", "y", "p", "e">>, Str(<<"f", "l", "o", "a", "t", "3", "2">>)),
                             get(obj, <<"s", "a", "m", "p", "l", "e", "_", "r", "a", "t", "e">>, None))
             ELSE [kind |-> "AttributeError"]

Features_from_dict(dic) == generate_from_dict(dic)

(* DatasetInfo.from_dict with __post_init__: the features loaded as a      *)
(* plain dict are regenerated                                              *)
DatasetInfo_from_dict(dataset_info_dict) ==
    LET features == get(dataset_info_dict, <<"f", "e", "a", "t", "u", "r", "e", "s">>, None)
    IN  DatasetInfo(get(dataset_info_dict, <<"d", "e", "s", "c", "r", "i", "p", "t", "i", "o", "n">>, Str(<<>>)),
                    get(dataset_info_dict, <<"f", "i", "l", "e", "_", "l", "i", "s", "t">>, List(<<>>)),
                    IF features = None THEN None ELSE Features_from_dict(features),
                    get(dataset_info_dict, <<"s", "i", "z", "e", "_", "i", "n", "_", "b", "y", "t", "e", "s">>, None),
                    get(dataset_info_dict, <<"m", "e", "t", "a", "d", "a", "t", "a">>, None))

from_json(dataset_info_file) == DatasetInfo_from_dict(json_load(dataset_info_file))

(***************************************************************************)
(* The DatasetInfo specification: an info is written to its JSON file and  *)
(* the file is loaded.                                                     *)
(***************************************************************************)
InfoShapes == {Tuple(e) : e \in SeqsUpTo({None, PyInt(2)}, MaxListLen)}

InfoDtypes == {Str(<<"i", "n", "t", "3", "2">>), Str(<<"f", "l", "o", "a", "t", "3", "2">>)}

InfoLeaves ==
    {Text, Json, Audio, Audio_init(Tuple(<<None>>), Str(<<"f", "l", "o", "a", "t", "3", "2">>), PyInt(16000))}
        \cup {Scalar(dtype) : dtype \in InfoDtypes}
        \cup {Tensor(shape, dtype) : shape \in InfoShapes, dtype \in InfoDtypes}

InfoFeatures ==
    InfoLeaves
        \cup {Sequence_init(Text, length) : length \in {PyInt(-1), PyInt(0), PyInt(3)}}
        \cup {Sequence(Dict(<< <<ka, Text>>, <<kb, Scalar(Str(<<"i", "n", "t", "3", "2">>))>> >>)),
              Sequence(Sequence_init(Json, PyInt(2))),
              List(<<Text>>), List(<<Dict(<< <<kb, Json>> >>)>>),
              Dict(<< <<kb, Text>> >>), Dict(<<>>),
              Dict(<< <<<<"_", "t", "y", "p", "e">>, Text>>, <<<<"l", "e", "n", "g", "t", "h">>, Json>> >>)}

InfoSchemas ==
    {None, Dict(<<>>), Dict(<< <<ka, Text>>, <<kb, Tensor(Tuple(<<PyInt(2)>>), Str(<<"i", "n", "t", "3", "2">>))>> >>)}
        \cup {Dict(<< <<ka, feature>> >>) : feature \in InfoFeatures}

InfoFileLists ==
    {List(<<>>), List(<<Str(<<"0", "0", "0", "0", "0", ".", "t", "a", "r">>)>>), List(<<Str(<<"0", "0", "0", "0", "0", ".", "t", "a", "r">>), Str(<<"0", "0", "0", "0", "1", ".", "t", "a", "r">>)>>)}

InfoMetadata ==
    {None, Dict(<<>>), Dict(<< <<<<"k", "e", "y">>, Str(<<"v", "a", "l", "u", "e">>)>> >>),
     Dict(<< <<ka, Dict(<< <<kb, List(<<PyInt(1), None>>)>> >>)>>, <<<<"_", "t", "y", "p", "e">>, Str(<<"T", "e", "x", "t">>)>> >>)}

Infos ==
    {DatasetInfo(description, file_list, features, size_in_bytes, metadata) :
        description \in {Str(<<>>), Str(<<"h", "e_acute">>)},
        file_list \in InfoFileLists,
        features \in InfoSchemas,
        size_in_bytes \in {None, PyInt(0), PyInt(5)},
        metadata \in InfoMetadata}

InfoInit ==
    /\ hash_seed = AllKeys
    /\ \E info \in Infos : fn_args = info
    /\ fn_pc = "info"
    /\ fn_mid = None
    /\ fn_out = None
    /\ NoShardWriter
    /\ NoStreams
    /\ NoReader
    /\ NoPack
    /\ tw = None
    /\ tw_last = None
    /\ tw_log = <<>>

(* info.write_to_json(dataset_info_file) *)
InfoWrite ==
    /\ fn_pc = "info"
    /\ fn_mid' = _dump_info(fn_args)
    /\ fn_pc' = "written"
    /\ UNCHANGED <<hash_seed, tarVars, shardVars, streamVars, readerVars, packVars,
                   fn_args, fn_out>>

(* DatasetInfo.from_json(dataset_info_file) *)
InfoLoad ==
    /\ fn_pc = "written"
    /\ fn_out' = from_json(fn_mid)
    /\ fn_pc' = "loaded"
    /\ UNCHANGED <<hash_seed, tarVars, shardVars, streamVars, readerVars, packVars,
                   fn_args, fn_mid>>

InfoNext ==
    \/ InfoWrite
    \/ InfoLoad

SpecInfo == InfoInit /\ [][InfoNext]_vars

(***************************************************************************)
(* Claims about the DatasetInfo file                                       *)
(***************************************************************************)
(* C13: a DatasetInfo written with write_to_json and loaded with from_json *)
(* is equal to the original in description, file_list, features,           *)
(* size_in_bytes and metadata.                                             *)
C13_ManifestRoundTrip ==
    fn_pc = "loaded" => fn_out = fn_args

(* the info loaded has a Tensor column with a shape, metadata and two     *)
(* shards                                                                 *)
C13_Witness ==
    /\ fn_pc = "loaded"
    /\ fn_out.metadata # None
    /\ Len(fn_out.file_list.elems) = 2
    /\ fn_out.features # None
    /\ \E i \in 1..Len(fn_out.features.items) :
          fn_out.features.items[i][2].kind = "Tensor"
    /\ fn_mid.kind = "object"

(***************************************************************************)
(* The nested traversal on its own: a record valid for a schema is encoded *)
(* by encode_nested_example and the result decoded by                      *)
(* decode_nested_example.                                                  *)
(***************************************************************************)
NestedTexts == {Str(<<"h", "e_acute">>), Str(<<>>)}

(* the values a schema accepts at a place below the root: null, and the    *)
(* values shaped as the schema                                             *)
RECURSIVE ValidValues(_)
ValidStructs(feature) ==
    {Dict([i \in 1..Len(feature.items) |-> <<feature.items[i][1], f[i]>>]) :
        f \in {g \in [1..Len(feature.items) ->
                         UNION {ValidValues(feature.items[i][2]) :
                                   i \in 1..Len(feature.items)}] :
                  \A i \in 1..Len(feature.items) :
                     g[i] \in ValidValues(feature.items[i][2])}}

ValidLists(feature) == {List(e) : e \in SeqsUpTo(ValidValues(feature), MaxListLen)}

ValidColumns(feature) ==
    {Dict([i \in 1..Len(feature.items) |-> <<feature.items[i][1], f[i]>>]) :
        f \in {g \in [1..Len(feature.items) ->
                         UNION {ValidLists(feature.items[i][2]) :
                                   i \in 1..Len(feature.items)}] :
                  \A i \in 1..Len(feature.items) :
                     g[i] \in ValidLists(feature.items[i][2])}}

ValidValues(schema) ==
    IF schema.kind = "dict" THEN {None} \cup ValidStructs(schema)
    ELSE IF schema.kind = "list" THEN {None} \cup ValidLists(schema.elems[1])
    ELSE IF schema.kind = "Sequence"
    THEN IF schema.feature.kind = "dict"
         THEN {None}
                 \cup {List(e) : e \in SeqsUpTo(ValidStructs(schema.feature), MaxListLen)}
                 \cup ValidColumns(schema.feature)
         ELSE {None} \cup ValidLists(schema.feature)
    ELSE {None} \cup NestedTexts

NestedFeatures ==
    {Text, Dict(<< <<kb, Text>> >>), Dict(<<>>), List(<<Text>>),
     List(<<Dict(<< <<kb, Text>> >>)>>), Sequence(Text),
     Sequence(Dict(<< <<kb, Text>> >>)), Sequence(Dict(<< <<ka, Text>>, <<kb, Text>> >>))}

NestedSchemas ==
    {Dict(<< <<ka, feature>> >>) : feature \in NestedFeatures}
        \cup {Dict(<< <<ka, Text>>, <<kb, List(<<Text>>)>> >>)}

NestedInit ==
    /\ hash_seed \in HashSeeds
    /\ \E schema \in NestedSchemas :
          \E obj \in ValidStructs(schema) :
             fn_args = [schema |-> schema, obj |-> obj]
    /\ fn_pc = "example"
    /\ fn_mid = None
    /\ fn_out = None
    /\ NoShardWriter
    /\ NoStreams
    /\ NoReader
    /\ NoPack
    /\ tw = None
    /\ tw_last = None
    /\ tw_log = <<>>

(* encode_nested_example(schema, obj) *)
NestedEncode ==
    /\ fn_pc = "example"
    /\ LET r == encode_nested_example(fn_args.schema, fn_args.obj, 0)
       IN  /\ fn_mid' = r.value
           /\ fn_pc' = IF r.raised THEN "encode_raised" ELSE "encoded"
    /\ UNCHANGED <<hash_seed, tarVars, shardVars, streamVars, readerVars, packVars,
                   fn_args, fn_out>>

(* decode_nested_example(schema, encoded) *)
NestedDecode ==
    /\ fn_pc = "encoded"
    /\ LET r == decode_nested_example(fn_args.schema, fn_mid)
       IN  /\ fn_out' = r.value
           /\ fn_pc' = IF r.raised THEN "decode_raised" ELSE "decoded"
    /\ UNCHANGED <<hash_seed, tarVars, shardVars, streamVars, readerVars, packVars,
                   fn_args, fn_mid>>

NestedNext ==
    \/ NestedEncode
    \/ NestedDecode

SpecNested == NestedInit /\ [][NestedNext]_vars

(***************************************************************************)
(* Claims about the nested traversal                                       *)
(***************************************************************************)
(* what a record is expected to come back as: itself, with a list of       *)
(* structs under a Sequence of struct recomposed as the struct of lists    *)
RECURSIVE Recomposed(_, _)
Recomposed(schema, obj) ==
    IF obj.kind = "None" THEN None
    ELSE IF schema.kind = "dict"
    THEN Dict([i \in 1..Len(schema.items) |->
                  <<schema.items[i][1],
                    Recomposed(schema.items[i][2], getitem(obj, schema.items[i][1]))>>])
    ELSE IF schema.kind = "list"
    THEN List([i \in 1..Len(obj.elems) |-> Recomposed(schema.elems[1], obj.elems[i])])
    ELSE IF schema.kind = "Sequence"
    THEN IF schema.feature.kind # "dict"
         THEN List([i \in 1..Len(obj.elems) |-> Recomposed(schema.feature, obj.elems[i])])
         ELSE Dict([i \in 1..Len(schema.feature.items) |->
                 LET k == schema.feature.items[i][1]
                     sub == schema.feature.items[i][2]
                 IN  <<k, IF obj.kind = "list"
                          THEN List([n \in 1..Len(obj.elems) |->
                                       Recomposed(sub, getitem(obj.elems[n], k))])
                          ELSE List([n \in 1..Len(getitem(obj, k).elems) |->
                                       Recomposed(sub, getitem(obj, k).elems[n])])>>])
    ELSE obj

(* equality of Python values: dicts are equal whatever the order of their  *)
(* keys                                                                    *)
RECURSIVE SameValue(_, _)
SameValue(a, b) ==
    IF a.kind # b.kind THEN FALSE
    ELSE IF a.kind = "dict"
    THEN /\ Len(a.items) = Len(b.items)
         /\ keys(a) = keys(b)
         /\ \A k \in keys(a) : SameValue(getitem(a, k), getitem(b, k))
    ELSE IF a.kind = "list"
    THEN /\ Len(a.elems) = Len(b.elems)
         /\ \A i \in 1..Len(a.elems) : SameValue(a.elems[i], b.elems[i])
    ELSE a = b

(* C14: for a schema without Audio and a record valid for it, encoding and *)
(* then decoding raises nothing and gives the record back, a list of       *)
(* structs under a Sequence of struct as the struct of lists of the same   *)
(* values in the same order.                                               *)
C14_NestedRoundTrip ==
    /\ fn_pc \notin {"encode_raised", "decode_raised"}
    /\ fn_pc = "decoded" => SameValue(Recomposed(fn_args.schema, fn_args.obj), fn_out)

(***************************************************************************)
(* The shape algebra on its own: two shapes are compared both ways.        *)
(***************************************************************************)
ShapeDims == {None} \cup {PyInt(n) : n \in 0..MaxDim}

Shapes ==
    {TensorShape(None)} \cup {TensorShape(Tuple(e)) : e \in SeqsUpTo(ShapeDims, MaxRank)}

ShapeInit ==
    /\ hash_seed = AllKeys
    /\ \E a \in Shapes : \E b \in Shapes : fn_args = [a |-> a, b |-> b]
    /\ fn_pc = "shapes"
    /\ fn_mid = None
    /\ fn_out = None
    /\ NoShardWriter
    /\ NoStreams
    /\ NoReader
    /\ NoPack
    /\ tw = None
    /\ tw_last = None
    /\ tw_log = <<>>

(* a.is_compatible_with(a) and a.is_compatible_with(b) *)
ShapeForward ==
    /\ fn_pc = "shapes"
    /\ fn_mid' = [aa |-> TensorShape_is_compatible_with(fn_args.a, fn_args.a),
                  ab |-> TensorShape_is_compatible_with(fn_args.a, fn_args.b)]
    /\ fn_pc' = "forward"
    /\ UNCHANGED <<hash_seed, tarVars, shardVars, streamVars, readerVars, packVars,
                   fn_args, fn_out>>

(* b.is_compatible_with(a) *)
ShapeBackward ==
    /\ fn_pc = "forward"
    /\ fn_out' = [ba |-> TensorShape_is_compatible_with(fn_args.b, fn_args.a)]
    /\ fn_pc' = "backward"
    /\ UNCHANGED <<hash_seed, tarVars, shardVars, streamVars, readerVars, packVars,
                   fn_args, fn_mid>>

ShapeNext ==
    \/ ShapeForward
    \/ ShapeBackward

SpecShape == ShapeInit /\ [][ShapeNext]_vars

(***************************************************************************)
(* Claims about the shape algebra                                          *)
(***************************************************************************)
(* C17: every shape is compatible with itself, and a is compatible with b  *)
(* exactly when b is compatible with a.                                    *)
C17_ShapeCompatSymmetric ==
    /\ fn_pc \in {"forward", "backward"} => fn_mid.aa
    /\ fn_pc = "backward" => fn_mid.ab = fn_out.ba

(* two different shapes of one rank, compatible through an unknown         *)
(* dimension of the first matched by a known one of the second             *)
C17_Witness ==
    /\ fn_pc = "backward"
    /\ fn_mid.ab
    /\ fn_args.a # fn_args.b
    /\ fn_args.a.dims # None
    /\ fn_args.b.dims # None
    /\ \E i \in 1..Len(fn_args.a.dims.elems) :
          /\ fn_args.a.dims.elems[i].value # None
          /\ fn_args.b.dims.elems[i].value = None

(***************************************************************************)
(* The leaf codecs on their own: a value of a leaf feature is encoded and  *)
(* the bytes decoded.                                                      *)
(***************************************************************************)
LeafTexts == {Str(chars) : chars \in SeqsUpTo({"a", "e_acute"}, MaxListLen)}

JsonAtoms == {None, PyInt(0), PyInt(10), Str(<<>>), Str(<<"a", "e_acute">>)}

JsonValues ==
    JsonAtoms
        \cup {List(e) : e \in SeqsUpTo(JsonAtoms, MaxListLen)}
        \cup {Dict(<< <<ka, v>> >>) :
                 v \in JsonAtoms \cup {List(<<PyInt(1)>>), Dict(<<>>),
                                       Dict(<< <<kb, List(<<>>)>> >>)}}
        \cup {Dict(<< <<ka, v>>, <<kb, w>> >>) : v \in JsonAtoms, w \in JsonAtoms}
        \cup {Dict(<<>>)}

LeafDtypes == {uint8, int16}

(* element i of an array: small values, or values that need every byte *)
ArrayElement(i, dtype, wide) ==
    IF ~wide THEN i
    ELSE IF dtype = uint8 THEN 256 - i
    ELSE IF i % 2 = 1 THEN 0 - (300 * i) ELSE 300 * i

Arrays ==
    {ndarray(shape, dtype, [i \in 1..Product(shape) |-> ArrayElement(i, dtype, wide)]) :
        shape \in SeqsUpTo(0..MaxDim, MaxRank), dtype \in LeafDtypes, wide \in BOOLEAN}

(* the nested-list form of an array of rank 0, 1 or 2 *)
tolist(arr) ==
    IF Len(arr.shape) = 0 THEN PyInt(arr.data[1])
    ELSE IF Len(arr.shape) = 1 THEN List([i \in 1..Len(arr.data) |-> PyInt(arr.data[i])])
    ELSE List([i \in 1..arr.shape[1] |->
                  List([j \in 1..arr.shape[2] |->
                           PyInt(arr.data[(i - 1) * arr.shape[2] + j])])])

TensorShapes == {Tuple(e) : e \in SeqsUpTo(ShapeDims, MaxRank)}

(* the arrays a Tensor accepts: its dtype, its rank, and every known       *)
(* dimension equal                                                         *)
ValidArrays(feature) ==
    {arr \in Arrays :
        /\ arr.dtype = feature.dtype
        /\ Len(arr.shape) = Len(feature.shape.elems)
        /\ \A i \in 1..Len(arr.shape) :
              feature.shape.elems[i] \in {None, PyInt(arr.shape[i])}}

(* a list of rank 2 with no row has lost its second dimension *)
ListForms(arrs) == {tolist(arr) : arr \in {a \in arrs : Len(a.shape) < 2 \/ a.shape[1] > 0}}

AudioFiles == {FileObj(data) : data \in SeqsUpTo({0, 255}, MaxListLen)}

LeafCases ==
    {[feature |-> Text, example |-> v] : v \in LeafTexts}
        \cup {[feature |-> Json, example |-> v] : v \in JsonValues}
        \cup UNION {{[feature |-> Scalar(dtype), example |-> v] :
                        v \in ValidArrays(Scalar(dtype))
                                 \cup ListForms(ValidArrays(Scalar(dtype)))} :
                    dtype \in LeafDtypes}
        \cup UNION {{[feature |-> Tensor(shape, dtype), example |-> v] :
                        v \in ValidArrays(Tensor(shape, dtype))
                                 \cup ListForms(ValidArrays(Tensor(shape, dtype)))} :
                    shape \in TensorShapes, dtype \in LeafDtypes}
        \cup {[feature |-> Audio, example |-> v] : v \in AudioFiles}

LeafInit ==
    /\ hash_seed = AllKeys
    /\ fn_args \in LeafCases
    /\ fn_pc = "example"
    /\ fn_mid = None
    /\ fn_out = None
    /\ NoShardWriter
    /\ NoStreams
    /\ NoReader
    /\ NoPack
    /\ tw = None
    /\ tw_last = None
    /\ tw_log = <<>>

(* feature.encode_example(example) *)
LeafEncode ==
    /\ fn_pc = "example"
    /\ LET r == encode_example(fn_args.feature, fn_args.example)
       IN  /\ fn_mid' = r.value
           /\ fn_pc' = IF r.raised THEN "encode_raised" ELSE "encoded"
    /\ UNCHANGED <<hash_seed, tarVars, shardVars, streamVars, readerVars, packVars,
                   fn_args, fn_out>>

(* feature.decode_example(encoded) *)
LeafDecode ==
    /\ fn_pc = "encoded"
    /\ LET r == decode_example(fn_args.feature, fn_mid)
       IN  /\ fn_out' = r.value
           /\ fn_pc' = IF r.raised THEN "decode_raised" ELSE "decoded"
    /\ UNCHANGED <<hash_seed, tarVars, shardVars, streamVars, readerVars, packVars,
                   fn_args, fn_mid>>

LeafNext ==
    \/ LeafEncode
    \/ LeafDecode

SpecLeaf == LeafInit /\ [][LeafNext]_vars

(***************************************************************************)
(* Claims about the leaf codecs                                            *)
(***************************************************************************)
(* decoded == example; for an array, the same shape and the same elements  *)
LeafEqual(feature, example, decoded) ==
    IF feature.kind \in {"Tensor", "Scalar"}
    THEN /\ decoded.kind = "ndarray"
         /\ decoded.shape = np_asarray(example, feature.dtype).value.shape
         /\ decoded.data = np_asarray(example, feature.dtype).value.data
    ELSE decoded = example

(* C15: for every leaf feature and every valid value of it, encoding does  *)
(* not raise, decoding the encoded bytes does not raise, and the decoded   *)
(* value equals the value encoded.                                         *)
C15_LeafRoundTrip ==
    /\ fn_pc \notin {"encode_raised", "decode_raised"}
    /\ fn_pc = "decoded" => LeafEqual(fn_args.feature, fn_args.example, fn_out)

(***************************************************************************)
(* Tar unpacking on its own: the generator _feature_stream is advanced     *)
(* over an arbitrary archive until it stops or raises.                     *)
(***************************************************************************)
UnpackMembers ==
    {DirMember(<<"0">>), FileMember(<<"0">>, <<104>>),
     FileMember(<<"0", "/", "a">>, <<97>>), FileMember(<<"0", "/", "b">>, <<>>),
     DirMember(<<"1">>), FileMember(<<"1", "/", "a">>, <<98>>)}

UnpackArchives == SeqsUpTo(UnpackMembers, MaxTarMembers)

UnpackInit ==
    /\ hash_seed = AllKeys
    /\ fn_args \in UnpackArchives
    /\ fn_pc = "stream"
    /\ fn_mid = [pos |-> 1, handles |-> 0]
    /\ fn_out = <<>>
    /\ NoShardWriter
    /\ NoStreams
    /\ NoReader
    /\ NoPack
    /\ tw = None
    /\ tw_last = None
    /\ tw_log = <<>>

(* next(example_stream): the members up to the end of the group, then      *)
(* _compose_feature on the group                                           *)
UnpackNextGroup ==
    /\ fn_pc \in {"stream", "yielded"}
    /\ LET g == _feature_stream_next(fn_args, fn_mid.pos)
           composed == _compose_feature(g.group, fn_mid.handles)
       IN  IF g.done
           THEN /\ fn_pc' = "StopIteration"
                /\ UNCHANGED <<fn_mid, fn_out>>
           ELSE IF composed.raised
           THEN /\ fn_pc' = "AssertionError"
                /\ UNCHANGED <<fn_mid, fn_out>>
           ELSE /\ fn_pc' = "yielded"
                /\ fn_mid' = [pos |-> g.next,
                              handles |-> fn_mid.handles
                                          + (IF Len(g.group) = 1 THEN 1
                                             ELSE CountFiles(g.group))]
                /\ fn_out' = Append(fn_out, [index |-> g.index, group |-> g.group,
                                             handles |-> fn_mid.handles,
                                             tree |-> composed.value])
    /\ UNCHANGED <<hash_seed, tarVars, shardVars, streamVars, readerVars, packVars,
                   fn_args>>

UnpackNext == UnpackNextGroup

SpecUnpack == UnpackInit /\ [][UnpackNext]_vars

(***************************************************************************)
(* Claims about the grouping of tar members                                *)
(***************************************************************************)
(* the k-th maximal run of consecutive members with one first component *)
Run(members, k) ==
    LET starts == Ascending(RunStarts(members))
    IN  SubSeq(members, starts[k],
               IF k < Len(starts) THEN starts[k + 1] - 1 ELSE Len(members))

GroupsAreRuns ==
    /\ Len(fn_out) <= Cardinality(RunStarts(fn_args))
    /\ \A k \in 1..Len(fn_out) :
          /\ fn_out[k].group = Run(fn_args, k)
          /\ fn_out[k].index = split(Run(fn_args, k)[1].name)[1]
          /\ fn_out[k].tree = _compose_feature(Run(fn_args, k), fn_out[k].handles).value
    /\ fn_pc = "StopIteration" =>
          /\ Len(fn_out) = Cardinality(RunStarts(fn_args))
          /\ Concat([k \in 1..Len(fn_out) |-> fn_out[k].group]) = fn_args

(* C20: the groups emitted are, in archive order, the maximal runs of      *)
(* consecutive members with the same first path component, one (index,     *)
(* tree) pair per run, each tree composed of exactly the members of its    *)
(* run; the generator does not raise, and when it stops every run has been *)
(* emitted, so that every member is in exactly one group.                  *)
C20_GroupsPartitionArchive ==
    /\ fn_pc # "AssertionError"
    /\ GroupsAreRuns

(* a run that is one directory member and nothing else *)
LoneDirectory(members) ==
    \E k \in 1..Cardinality(RunStarts(members)) :
        Len(Run(members, k)) = 1 /\ isdir(Run(members, k)[1])

(* the same for the archives in which no run is a lone directory *)
C20_WithoutLoneDirectory ==
    ~LoneDirectory(fn_args) => C20_GroupsPartitionArchive

(***************************************************************************)
(* The composition of one group on its own: the nested dict is built from  *)
(* the members' paths, then transformed.                                   *)
(***************************************************************************)
k2 == <<"2">>

k10 == <<"1", "0">>

TransformKeys == {k2, k10, ka}

(* the paths below the index: one or two components *)
TransformPaths ==
    {<<k>> : k \in TransformKeys} \cup {<<k, l>> : k \in TransformKeys, l \in TransformKeys}

(* files whose paths are distinct and none a directory of another *)
TransformPathLists ==
    {paths \in SeqsUpTo(TransformPaths, MaxTarMembers - 1) :
        \A i, j \in 1..Len(paths) :
            i # j => /\ paths[i] # paths[j]
                     /\ ~(Len(paths[i]) = 1 /\ Len(paths[j]) = 2
                          /\ paths[j][1] = paths[i][1])}

RECURSIVE JoinParts(_)
JoinParts(parts) ==
    IF Len(parts) = 1 THEN parts[1] ELSE JoinPath(parts[1], JoinParts(Tail(parts)))

(* the group of index "0": its directory, then one file per path, file i   *)
(* holding the byte i                                                      *)
TransformGroup(paths) ==
    <<DirMember(<<"0">>)>>
        \o [i \in 1..Len(paths) |-> FileMember(JoinParts(<<(<<"0">>)>> \o paths[i]), <<i>>)]

TransformInit ==
    /\ hash_seed = AllKeys
    /\ \E paths \in TransformPathLists : fn_args = TransformGroup(paths)
    /\ fn_pc = "group"
    /\ fn_mid = None
    /\ fn_out = None
    /\ NoShardWriter
    /\ NoStreams
    /\ NoReader
    /\ NoPack
    /\ tw = None
    /\ tw_last = None
    /\ tw_log = <<>>

(* _compose_feature, lines 65-76: the loop over the group *)
TransformBuild ==
    /\ fn_pc = "group"
    /\ fn_mid' = BuildNested(fn_args, 1, Dict(<<>>), 0)
    /\ fn_pc' = "nested"
    /\ UNCHANGED <<hash_seed, tarVars, shardVars, streamVars, readerVars, packVars,
                   fn_args, fn_out>>

(* _compose_feature, line 77: _transform_dict(nested) *)
TransformDict ==
    /\ fn_pc = "nested"
    /\ fn_out' = _transform_dict(fn_mid)
    /\ fn_pc' = "transformed"
    /\ UNCHANGED <<hash_seed, tarVars, shardVars, streamVars, readerVars, packVars,
                   fn_args, fn_mid>>

TransformNext ==
    \/ TransformBuild
    \/ TransformDict

SpecTransform == TransformInit /\ [][TransformNext]_vars

(***************************************************************************)
(* Claims about the lists rebuilt from all-digit keys                      *)
(***************************************************************************)
Orderings(n) ==
    {p \in [1..n -> 1..n] : \A i, j \in 1..n : i # j => p[i] # p[j]}

(* out is what the claim asks of the mapping or leaf in *)
RECURSIVE Transformed(_, _)
Transformed(in, out) ==
    IF in.kind # "dict" THEN out = in
    ELSE IF \A i \in 1..Len(in.items) : isdigit(in.items[i][1])
    THEN /\ out.kind = "list"
         /\ Len(out.elems) = Len(in.items)
         /\ \E p \in Orderings(Len(in.items)) :
               /\ \A i \in 1..Len(in.items) :
                     Transformed(in.items[p[i]][2], out.elems[i])
               /\ \A i, j \in 1..Len(in.items) :
                     i < j => int(in.items[p[i]][1]) <= int(in.items[p[j]][1])
    ELSE /\ out.kind = "dict"
         /\ Len(out.items) = Len(in.items)
         /\ \A i \in 1..Len(in.items) :
               /\ out.items[i][1] = in.items[i][1]
               /\ Transformed(in.items[i][2], out.items[i][2])

(* C21: in the tree rebuilt from a group, every mapping at any depth whose *)
(* keys are all all-digit has become the list of its values in increasing  *)
(* order of the keys' integer values, and every mapping with a non-digit   *)
(* key is still a mapping with the same keys.                              *)
C21_DigitKeysBecomeLists ==
    fn_pc = "transformed" => Transformed(fn_mid, fn_out)

(* key 10 was stored before key 2 under a non-digit key: the mapping       *)
(* stayed and the inner one became the list with the value of 2 first      *)
C21_Witness ==
    /\ fn_pc = "transformed"
    /\ fn_mid = Dict(<< <<ka, Dict(<< <<k10, Handle(1, <<1>>)>>,
                                     <<k2, Handle(2, <<2>>)>> >>)>> >>)
    /\ fn_out = Dict(<< <<ka, List(<<Handle(2, <<2>>), Handle(1, <<1>>)>>)>> >>)

(***************************************************************************)
(* A leaf decoder given a stream handle: a member of an open shard is      *)
(* extracted and its handle handed to the decoder of a leaf feature.       *)
(***************************************************************************)
(* the bytes of the encoded values of a feature, and no bytes at all *)
MemberContents(feature) ==
    {encode_example(c.feature, c.example).value.data :
        c \in {x \in LeafCases : x.feature = feature
                                  /\ ~encode_example(x.feature, x.example).raised}}
        \cup {<<>>}

HandleInit ==
    /\ hash_seed = AllKeys
    /\ \E feature \in {c.feature : c \in LeafCases} :
          \E data \in MemberContents(feature) :
             fn_args = [feature |-> feature, data |-> data]
    /\ fn_pc = "member"
    /\ fn_mid = None
    /\ fn_out = None
    /\ streams = StreamWrapper(<<>>, 0)
    /\ st_last = None
    /\ NoShardWriter
    /\ NoReader
    /\ NoPack
    /\ tw = None
    /\ tw_last = None
    /\ tw_log = <<>>

(* _get_inner_fobj(tar_stream, tarinfo) *)
HandleExtract ==
    /\ fn_pc = "member"
    /\ streams' = StreamWrapper(streams, 1)
    /\ fn_mid' = Handle(Len(streams) + 1, fn_args.data)
    /\ fn_pc' = "handle"
    /\ UNCHANGED <<hash_seed, tarVars, shardVars, readerVars, packVars, st_last,
                   fn_args, fn_out>>

(* feature.decode_example(handle) *)
HandleDecode ==
    /\ fn_pc = "handle"
    /\ LET r == decode_example(fn_args.feature, fn_mid)
       IN  /\ streams' = CloseAll(streams, r.closed)
           /\ fn_out' = r.value
           /\ fn_pc' = IF r.raised THEN "decode_raised" ELSE "decoded"
    /\ UNCHANGED <<hash_seed, tarVars, shardVars, readerVars, packVars, st_last,
                   fn_args, fn_mid>>

HandleNext ==
    \/ HandleExtract
    \/ HandleDecode

SpecHandle == HandleInit /\ [][HandleNext]_vars

(***************************************************************************)
(* Claims about the leaf decoders and stream handles                       *)
(***************************************************************************)
(* C23: when the decode call of a leaf feature that was given a stream     *)
(* handle has returned, the handle is closed; when the handle had zero     *)
(* bytes to read, the call does not raise and returns None.                *)
C23_DecoderClosesHandle ==
    /\ fn_pc = "decoded" => streams[fn_mid.id].closed
    /\ (fn_pc \in {"decoded", "decode_raised"} /\ Len(fn_args.data) = 0)
           => fn_pc = "decoded" /\ fn_out = None

(* the same for Text, Tensor and Scalar only *)
C23_TextAndTensorOnly ==
    fn_args.feature.kind \in {"Text", "Tensor", "Scalar"} => C23_DecoderClosesHandle

(***************************************************************************)
(* The nested traversal on mappings whose keys may differ from the         *)
(* schema's: encode_nested_example on a value, decode_nested_example on an *)
(* encoded value.                                                          *)
(***************************************************************************)
MismatchSchemas ==
    {Dict(<<>>), Dict(<< <<ka, Text>> >>), Dict(<< <<ka, Text>>, <<kb, Text>> >>),
     Dict(<< <<ka, Dict(<< <<kb, Text>> >>)>> >>),
     Dict(<< <<ka, Text>>, <<kb, Dict(<< <<ka, Text>> >>)>> >>)}

MismatchKeyLists == {<<>>, <<ka>>, <<kb>>, <<ka, kb>>, <<kb, ka>>}

(* mappings one or two levels deep over one leaf value *)
MappingsOver(leaf) ==
    LET inner == {leaf, Dict(<<>>), Dict(<< <<ka, leaf>> >>), Dict(<< <<kb, leaf>> >>),
                  Dict(<< <<ka, leaf>>, <<kb, leaf>> >>)}
    IN  UNION {{Dict([i \in 1..Len(ks) |-> <<ks[i], f[i]>>]) : f \in [1..Len(ks) -> inner]} :
                  ks \in MismatchKeyLists}

MismatchInit ==
    /\ hash_seed \in HashSeeds
    /\ \E schema \in MismatchSchemas :
          \/ /\ \E obj \in MappingsOver(Str(<<"h">>)) :
                   fn_args = [schema |-> schema, obj |-> obj, op |-> "encode"]
             /\ fn_pc = "example"
             /\ fn_mid = None
          \/ /\ \E obj \in MappingsOver(Bytes(<<104>>)) :
                   /\ fn_args = [schema |-> schema, obj |-> obj, op |-> "decode"]
                   /\ fn_mid = obj
             /\ fn_pc = "encoded"
    /\ fn_out = None
    /\ NoShardWriter
    /\ NoStreams
    /\ NoReader
    /\ NoPack
    /\ tw = None
    /\ tw_last = None
    /\ tw_log = <<>>

SpecMismatch == MismatchInit /\ [][NestedNext]_vars

(***************************************************************************)
(* Claims about mappings with missing or extra keys                        *)
(***************************************************************************)
(* somewhere a mapping of the value faces a mapping schema with other keys *)
RECURSIVE KeysDiffer(_, _)
KeysDiffer(schema, obj) ==
    /\ schema.kind = "dict"
    /\ obj.kind = "dict"
    /\ \/ keys(schema) # keys(obj)
       \/ \E k \in keys(schema) : KeysDiffer(getitem(schema, k), getitem(obj, k))

(* the value has the schema's mappings and a leaf wherever the schema has  *)
RECURSIVE Shaped(_, _)
Shaped(schema, obj) ==
    IF schema.kind = "dict"
    THEN /\ obj.kind = "dict"
         /\ keys(schema) = keys(obj)
         /\ \A k \in keys(schema) : Shaped(getitem(schema, k), getitem(obj, k))
    ELSE obj.kind # "dict"

FieldNames ==
    <<<<"d", "e", "s", "c", "r", "i", "p", "t", "i", "o", "n">>,
      <<"f", "i", "l", "e", "_", "l", "i", "s", "t">>,
      <<"f", "e", "a", "t", "u", "r", "e", "s">>,
      <<"s", "i", "z", "e", "_", "i", "n", "_", "b", "y", "t", "e", "s">>,
      <<"m", "e", "t", "a", "d", "a", "t", "a">>>>

(* self.__dict__: the fields of the dataclass in definition order *)
__dict__(info) ==
    Dict(<< <<FieldNames[1], info.description>>, <<FieldNames[2], info.file_list>>,
            <<FieldNames[3], info.features>>, <<FieldNames[4], info.size_in_bytes>>,
            <<FieldNames[5], info.metadata>> >>)

(* the instance whose __dict__ is d *)
FromDict(d) ==
    DatasetInfo(getitem(d, FieldNames[1]), getitem(d, FieldNames[2]), getitem(d, FieldNames[3]),
                getitem(d, FieldNames[4]), getitem(d, FieldNames[5]))

(* utils.update_dict(d, u) from item i of u on.  d is updated in place:    *)
(* the result carries d as it is when the call returns or raises.  On an   *)
(* object that is no dict, d.get and d[k] = v raise.                       *)
RECURSIVE UpdateItems(_, _, _)
UpdateItems(d, items, i) ==
    IF i > Len(items) THEN [raised |-> FALSE, d |-> d]
    ELSE IF d.kind # "dict" THEN [raised |-> TRUE, d |-> d]
    ELSE LET k == items[i][1]
             v == items[i][2]
         IN  IF v.kind = "dict"
             THEN LET r == UpdateItems(get(d, k, Dict(<<>>)), v.items, 1)
                  IN  IF r.raised
                      THEN [raised |-> TRUE,
                            d |-> IF k \in keys(d) THEN setitem(d, k, r.d) ELSE d]
                      ELSE UpdateItems(setitem(d, k, r.d), items, i + 1)
             ELSE UpdateItems(setitem(d, k, v), items, i + 1)

update_dict(d, u) == UpdateItems(d, u.items, 1)

(* DatasetInfo.update(self, other_dataset_info, ignore_none): the result   *)
(* carries self as the call leaves it                                      *)
DatasetInfo_update(self, other_dataset_info, ignore_none) ==
    LET other == __dict__(other_dataset_info)
        u == Dict(SelectSeq(other.items, LAMBDA kv : kv[2] # None \/ ~ignore_none))
        r == update_dict(__dict__(self), u)
    IN  [raised |-> r.raised, self |-> FromDict(r.d)]

(***************************************************************************)
(* The update specification: one manifest is updated with another.         *)
(***************************************************************************)
UpdateFeatures ==
    {None, Dict(<<>>), Dict(<< <<ka, Text>> >>), Dict(<< <<kb, Json>> >>),
     Dict(<< <<ka, Dict(<< <<kb, Text>> >>)>> >>),
     Dict(<< <<ka, Dict(<< <<ka, Json>> >>)>>, <<kb, Text>> >>)}

UpdateMetadata ==
    {None, Dict(<<>>), Dict(<< <<ka, Str(<<"v">>)>> >>),
     Dict(<< <<ka, Dict(<< <<kb, PyInt(1)>> >>)>> >>)}

UpdateInfos ==
    {DatasetInfo(description, file_list, features, size_in_bytes, metadata) :
        description \in {Str(<<>>), Str(<<"h">>)},
        file_list \in {List(<<>>), List(<<Str(<<"0", ".", "t", "a", "r">>)>>)},
        features \in UpdateFeatures,
        size_in_bytes \in {None, PyInt(5)},
        metadata \in UpdateMetadata}

UpdateInit ==
    /\ hash_seed = AllKeys
    /\ \E self \in UpdateInfos, other \in UpdateInfos :
          fn_args = [self |-> self, other |-> other]
    /\ fn_pc = "info"
    /\ fn_mid = None
    /\ fn_out = None
    /\ NoShardWriter
    /\ NoStreams
    /\ NoReader
    /\ NoPack
    /\ tw = None
    /\ tw_last = None
    /\ tw_log = <<>>

(* self.update(other_dataset_info): fn_out is self after the call *)
Update ==
    /\ fn_pc = "info"
    /\ LET r == DatasetInfo_update(fn_args.self, fn_args.other, TRUE)
       IN  /\ fn_out' = r.self
           /\ fn_pc' = IF r.raised THEN "update_raised" ELSE "updated"
    /\ UNCHANGED <<hash_seed, tarVars, shardVars, streamVars, readerVars, packVars,
                   fn_args, fn_mid>>

UpdateNext == Update

SpecUpdate == UpdateInit /\ [][UpdateNext]_vars

(***************************************************************************)
(* Claims about DatasetInfo.update                                         *)
(***************************************************************************)
(* r is u merged key by key into d; a d that is no mapping counts as empty *)
RECURSIVE IsMerge(_, _, _)
IsMerge(d, u, r) ==
    LET dd == IF d.kind = "dict" THEN d ELSE Dict(<<>>)
    IN  /\ r.kind = "dict"
        /\ keys(r) = keys(dd) \cup keys(u)
        /\ \A k \in keys(r) :
              IF k \notin keys(u) THEN getitem(r, k) = getitem(dd, k)
              ELSE IF getitem(u, k).kind # "dict" THEN getitem(r, k) = getitem(u, k)
              ELSE IsMerge(get(dd, k, Dict(<<>>)), getitem(u, k), getitem(r, k))

(* field by field: null in other keeps self's, a mapping is merged, any    *)
(* other value replaces                                                    *)
IsInfoMerge(self, other, out) ==
    \A i \in 1..Len(FieldNames) :
        LET s == getitem(__dict__(self), FieldNames[i])
            o == getitem(__dict__(other), FieldNames[i])
            r == getitem(__dict__(out), FieldNames[i])
        IN  IF o = None THEN r = s
            ELSE IF o.kind = "dict" THEN IsMerge(s, o, r)
            ELSE r = o

(* C25: update(other) with the default ignore_none returns for every pair  *)
(* of manifests and leaves self as the deep merge of other into self: a    *)
(* null field of other keeps self's, a non-mapping field replaces it, a    *)
(* mapping field is merged key by key, also when self's field is null.     *)
C25_UpdateDeepMerges ==
    fn_pc # "info" =>
        /\ fn_pc = "updated"
        /\ IsInfoMerge(fn_args.self, fn_args.other, fn_out)

(* no mapping of other meets a value of self that is no mapping *)
RECURSIVE Mergeable(_, _)
Mergeable(d, u) ==
    u.kind = "dict" =>
        /\ d.kind = "dict"
        /\ \A k \in keys(u) \cap keys(d) : Mergeable(getitem(d, k), getitem(u, k))

(* the part of C25 the code keeps: where every mapping of other meets a    *)
(* mapping of self or a missing key, update returns the deep merge         *)
C25_MergeOverMappings ==
    (fn_pc # "info" /\ Mergeable(__dict__(fn_args.self), __dict__(fn_args.other)))
        => fn_pc = "updated" /\ IsInfoMerge(fn_args.self, fn_args.other, fn_out)

=============================================================================
